---------------------------- MODULE Spec2Model ----------------------------
(***************************************************************************)
(* Model of the PRY_SR recommendation backend:                             *)
(*   app/models/data_manager.py   DataManager (singleton reference store)  *)
(*                                CarreraMapper (static lookup tables)     *)
(*   app/models/user_vectorizer.py UserVectorizer (76d student vector)     *)
(*   app/models/recommender.py    RecommendationEngine (posting cache,     *)
(*                                ranking)                                 *)
(*   app/__init__.py, run.py      create_app / start-up                    *)
(*                                                                         *)
(* Real numbers are kept on an integer grid: student-side weights are in   *)
(* hundredths (0.99 is 99, a soft-skill score 0.25 is 25), posting-side    *)
(* weights are integer term weights.  Cosine similarities are compared by  *)
(* cross-multiplication of squares, never divided.                         *)
(***************************************************************************)
EXTENDS Integers, Sequences, FiniteSets, TLC

VARIABLES
    \* ---- reference bundle on disk and its environment (data_manager.py)
    files,          \* the four candidate paths of datos_procesados.pkl: what each holds
    data_url,       \* whether DATA_URL is configured
    \* ---- DataManager class and instances
    cls_instance,   \* DataManager._instance: 0 is None, else an index into instances
    instances,      \* the DataManager objects ever created: their instance attributes
    \* ---- threads calling DataManager() and its accessors
    pc,             \* where each thread is inside DataManager() / an accessor
    self,           \* the object each thread's call works on (0: none yet)
    loaded_obj,     \* the unpickled object a thread holds between pickle.load and the assignment
    calls,          \* how many DataManager() calls each thread has begun
    observed,       \* what the thread's last call returned to it
    \* ---- history variables of the DataManager runs
    loads_started,  \* number of _load_data executions begun
    loads_done,     \* number of _load_data executions that assigned _datos_procesados
    partial_seen,   \* some thread read _is_loaded = False on an object whose data was already set
    \* ---- the Flask process (app/__init__.py, run.py, routes)
    app_state,      \* "not_started", "created" (create_app returned), "serving" (app.run)
    startup_failed, \* history: DataManager() raised inside create_app
    response,       \* the last response a route handler returned
    \* ---- CarreraMapper lookups (data_manager.py 208-299)
    mp_input,       \* the survey label handed to map_career
    mp_career,      \* what map_career returned ("unset" before the call)
    mp_csv,         \* what get_career_csv returned for mp_career
    \* ---- UserVectorizer calls (user_vectorizer.py)
    vz_call,        \* the arguments of create_vector_76d
    vz_result,      \* whether it has returned, and the vector (<<>> is None)
    \* ---- RecommendationEngine (recommender.py)
    csv_files,      \* job offers CSV path -> file
    ofertas_cache,  \* _GLOBAL_OFFERS_CACHE: csv path -> (df_ofertas, tfidf_69d_array)
    vectorized,     \* csv path -> loads and vectorizations completed since the last clear
    argsort_ties,   \* where np.argsort of this build puts equal similarities
    rq,             \* request thread -> its get_recommendations call: position, locals, result
    \* ---- what a caller keeps of earlier calls to compare later ones with
    rp,             \* a request, what it returned, and what it returned when made again
    pr,             \* a POST /predict request: its JSON body and what the handler did for it
    sh,             \* tuples of a bundle with some number of groups, collected and ranked
    store           \* the arrays of the academic matrix in memory, and the array a build works on

dmVars == <<files, data_url, cls_instance, instances, pc, self, loaded_obj,
            calls, observed, loads_started, loads_done, partial_seen>>

appVars == <<app_state, startup_failed, response>>

mapVars == <<mp_input, mp_career, mp_csv>>

vecVars == <<vz_call, vz_result>>

engVars == <<csv_files, ofertas_cache, vectorized, argsort_ties, rq>>

histVars == <<rp, pr, sh, store>>

vars == <<dmVars, appVars, mapVars, vecVars, engVars, histVars>>

\* The variables each component leaves alone.
outsideDM == <<appVars, mapVars, vecVars, engVars, histVars>>
outsideApp == <<mapVars, vecVars, engVars, histVars>>
outsideMap == <<dmVars, appVars, vecVars, engVars, histVars>>
outsideVec == <<dmVars, appVars, mapVars, engVars, histVars>>
outsideEng == <<dmVars, appVars, mapVars, vecVars, histVars>>

-----------------------------------------------------------------------------
(* Bounds of the model *)

NumThreads == 2
MaxCalls == 2

Threads == 1..NumThreads

-----------------------------------------------------------------------------
(* Values *)

NoneVal == "None"

\* A route handler's answer: HTTP status, the success flag, and the payload's gist.
Response(status, success, data) == [status |-> status, success |-> success, data |-> data]
NoResponse == Response(0, FALSE, "none")

\* What a candidate path can hold.  A bundle kind names the dict the pickle holds.
BundleKinds == {"full", "no_habilidades", "empty_grupos", "no_tfidf"}
FileKinds == {"absent", "lfs_pointer", "corrupt"} \cup BundleKinds

\* Keys of the pickled dict, per bundle kind, and whether the value is empty.
BundleKeys(kind) ==
    CASE kind = "full"           -> {"habilidades", "grupos_bge_ngram", "tfidf_epn_69d"}
      [] kind = "no_habilidades" -> {"grupos_bge_ngram", "tfidf_epn_69d"}
      [] kind = "empty_grupos"   -> {"habilidades", "grupos_bge_ngram", "tfidf_epn_69d"}
      [] kind = "no_tfidf"       -> {"habilidades", "grupos_bge_ngram"}
      [] OTHER                   -> {}

BundleEmptyKeys(kind) == IF kind = "empty_grupos" THEN {"grupos_bge_ngram"} ELSE {}


-----------------------------------------------------------------------------
(* CarreraMapper  (data_manager.py 208-299) *)

\* MAPEO_CARRERAS: survey label -> column name of tfidf_epn_69d
MAPEO_CARRERAS ==
       ("(RRA20) COMPUTACIÓN" :> "Ingenieria En Ciencias De La Computacion")
    @@ ("(RRA20) AGROINDUSTRIA" :> "Ingenieria Agroindustria")
    @@ ("(RRA20) ADMINISTRACIÓN DE EMPRESAS" :> "Licenciatura Administracion De Empresas")
    @@ ("(RRA20) INGENIERÍA AMBIENTAL" :> "Ingenieria Ambiental")
    @@ ("(RRA20) ECONOMÍA" :> "Economia")
    @@ ("INGENIERIA EN CIENCIAS ECONOMICAS Y FINANCIERAS" :> "Economia")
    @@ ("(RRA20) ELECTRICIDAD" :> "Ingenieria En Electricidad")
    @@ ("(RRA20) ELECTRÓNICA Y AUTOMATIZACIÓN" :> "Ingenieria En Electronica Y Automatizacion")
    @@ ("(RRA20) FÍSICA" :> "Fisica")
    @@ ("FISICA" :> "Fisica")
    @@ ("(RRA20) GEOLOGÍA" :> "Ingenieria En Geologia")
    @@ ("INGENIERIA GEOLOGICA" :> "Ingenieria En Geologia")
    @@ ("(RRA20) INGENIERÍA DE LA PRODUCCIÓN" :> "Ingenieria De La Produccion")
    @@ ("(RRA20) MATEMÁTICA" :> "Matematica")
    @@ ("(RRA20) MECÁNICA" :> "Ingenieria En Mecanica")
    @@ ("INGENIERIA MECANICA" :> "Ingenieria En Mecanica")
    @@ ("(RRA20) PETRÓLEOS" :> "Ingenieria En Petroleos")
    @@ ("(RRA20) INGENIERÍA QUÍMICA" :> "Ingenieria Quimica")
    @@ ("(RRA20) DESARROLLO DE SOFTWARE" :> "Ingenieria En Software")
    @@ ("(RRA20) SOFTWARE" :> "Ingenieria En Software")
    @@ ("(RRA20) TELECOMUNICACIONES" :> "Ingenieria En Telecomunicaciones")
    @@ ("(RRA20) INGENIERÍA CIVIL" :> "Ingenieria Civil")
    @@ ("(RRA20) TECNOLOGÍAS DE LA INFORMACIÓN" :> "Ingenieria En Telecomunicacion De La Informacion")

\* A value of CARRERA_TO_CSV: one path (str) or several (list); None when .get misses.
CsvStr(path) == [kind |-> "str", paths |-> <<path>>]
CsvList(paths) == [kind |-> "list", paths |-> paths]
CsvNone == [kind |-> "None", paths |-> <<>>]
\* No lookup has been made yet.
CsvUnset == [kind |-> "unset", paths |-> <<>>]

\* CARRERA_TO_CSV: column name of tfidf_epn_69d -> job offers CSV (or CSVs)
CARRERA_TO_CSV ==
       ("Ingenieria En Ciencias De La Computacion" :>
           CsvStr("todas_las_plataformas/Computación/Computación_Merged.csv"))
    @@ ("Ingenieria Agroindustria" :>
           CsvStr("todas_las_plataformas/Agroindustria/Agroindustria_Merged.csv"))
    @@ ("Licenciatura Administracion De Empresas" :>
           CsvStr("todas_las_plataformas/Administración_de_Empresas/Administración_de_Empresas_Merged.csv"))
    @@ ("Ingenieria Ambiental" :>
           CsvStr("todas_las_plataformas/Ingeniería_Ambiental/Ingeniería_Ambiental_Merged.csv"))
    @@ ("Economia" :>
           CsvStr("todas_las_plataformas/Economía/Economía_Merged.csv"))
    @@ ("Ingenieria En Electricidad" :>
           CsvStr("todas_las_plataformas/Electricidad/Electricidad_Merged.csv"))
    @@ ("Ingenieria En Electronica Y Automatizacion" :>
           CsvStr("todas_las_plataformas/Electrónica_y_Automatización/Electrónica_y_Automatización_Merged.csv"))
    @@ ("Fisica" :>
           CsvStr("todas_las_plataformas/Física/Física_Merged.csv"))
    @@ ("Ingenieria En Geologia" :>
           CsvStr("todas_las_plataformas/Geología/Geología_Merged.csv"))
    @@ ("Ingenieria De La Produccion" :>
           CsvStr("todas_las_plataformas/Ingeniería_de_la_Producción/Ingeniería_de_la_Producción_Merged.csv"))
    @@ ("Ingenieria En Materiales" :>
           CsvStr("todas_las_plataformas/Materiales/Materiales_Merged.csv"))
    @@ ("Ingenieria En Mecanica" :>
           CsvStr("todas_las_plataformas/Mecánica/Mecánica_Merged.csv"))
    @@ ("Ingenieria En Mecatronica" :>
           CsvStr("todas_las_plataformas/Mecatrónica/Mecatrónica_Merged.csv"))
    @@ ("Ingenieria En Petroleos" :>
           CsvStr("todas_las_plataformas/Petróleos/Petróleos_Merged.csv"))
    @@ ("Ingenieria Quimica" :>
           CsvStr("todas_las_plataformas/Ingeniería_Química/Ingeniería_Química_Merged.csv"))
    @@ ("Ingenieria En Telecomunicaciones" :>
           CsvStr("todas_las_plataformas/Telecomunicaciones/Telecomunicaciones_Merged.csv"))
    @@ ("Ingenieria Civil" :>
           CsvStr("todas_las_plataformas/Ingeniería_Civil/Ingeniería_Civil_Merged.csv"))
    @@ ("Matematica" :>
           CsvStr("todas_las_plataformas/Matemática/Matemática_Merged.csv"))
    @@ ("Matematica Aplicada" :>
           CsvStr("todas_las_plataformas/Matemática_Aplicada/Matemática_Aplicada_Merged.csv"))
    @@ ("Ingenieria En Software" :>
           CsvStr("todas_las_plataformas/Software/Software_Merged.csv"))
    @@ ("Ingenieria En Ciencias De Datos" :>
           CsvStr("todas_las_plataformas/Ciencia_de_Datos/Ciencia_de_Datos_Merged.csv"))
    @@ ("Ciencias De Datos E Inteligencia Artificial" :>
           CsvList(<<"todas_las_plataformas/Inteligencia_Artificial/Inteligencia_Artificial_Merged.csv", "todas_las_plataformas/Ciencia_de_Datos/Ciencia_de_Datos_Merged.csv">>))
    @@ ("Ingenieria En Sistemas De Informacion" :>
           CsvStr("todas_las_plataformas/Sistemas_de_Información/Sistemas_de_Información_Merged.csv"))
    @@ ("Ingenieria En Tecnologías De La Información" :>
           CsvStr("todas_las_plataformas/Tecnologías_de_la_Información/Tecnologías_de_la_Información_Merged.csv"))

\* SOFT_SKILLS_LABELS (7 dimensions)
SOFT_SKILLS_LABELS ==
    <<"Gestión",
      "Comunicación efectiva",
      "Liderazgo",
      "Trabajo en equipo",
      "Ética profesional",
      "Responsabilidad social",
      "Aprendizaje autónomo">>

\* A text as typed: the text without its surrounding whitespace, and how many
\* whitespace characters stand before and after it.
Text(lead, core, trail) == [lead |-> lead, core |-> core, trail |-> trail]

\* str.strip()
strip(txt) == txt.core

\* dict.get(key) with the default None
DictGetOrNone(d, key) == IF key \in DOMAIN d THEN d[key] ELSE NoneVal

\* map_career: cls.MAPEO_CARRERAS.get(carrera_input.strip())
map_career(carrera_input) == DictGetOrNone(MAPEO_CARRERAS, strip(carrera_input))

\* get_career_csv: cls.CARRERA_TO_CSV.get(carrera)
get_career_csv(carrera) ==
    IF carrera \in DOMAIN CARRERA_TO_CSV THEN CARRERA_TO_CSV[carrera] ELSE CsvNone

\* get_available_careers: list(cls.CARRERA_TO_CSV.keys())
get_available_careers == DOMAIN CARRERA_TO_CSV

\* Python truth of a get_career_csv result: None, '' and [] are false.
CsvTruthy(csv) ==
    /\ csv.kind # "None"
    /\ csv.paths # <<>>
    /\ csv.kind = "str" => csv.paths[1] # ""

MapIdle ==
    /\ mp_input = Text(0, "", 0)
    /\ mp_career = "unset"
    /\ mp_csv = CsvUnset

VecIdle ==
    /\ vz_call = [carrera |-> "", asignaturas |-> <<>>, soft_skills |-> <<>>]
    /\ vz_result = [returned |-> FALSE, vector |-> <<>>]

\* No job offers files, nothing cached, no request thread.
EngIdle ==
    /\ csv_files = <<>>
    /\ ofertas_cache = <<>>
    /\ vectorized = <<>>
    /\ argsort_ties = "index_ascending"
    /\ rq = <<>>

\* Nothing kept of earlier calls.
HistIdle == rp = <<>> /\ pr = <<>> /\ sh = <<>> /\ store = <<>>

-----------------------------------------------------------------------------
(* DataManager._load_data  (data_manager.py 28-122) *)

\* Candidate order: DATA_DIR from the environment, Config.DATA_DIR, app/, project root.
ENV_PATH == 1
CONFIG_PATH == 2
APP_PATH == 3
ROOT_PATH == 4
CandidatePaths == <<ENV_PATH, CONFIG_PATH, APP_PATH, ROOT_PATH>>

\* for p in candidates: if p.exists(): pkl_path = p; break     (0 is None)
LocatePkl(fs) ==
    LET found == {i \in 1..Len(CandidatePaths) : fs[CandidatePaths[i]] # "absent"}
    IN  IF found = {} THEN 0
        ELSE CandidatePaths[CHOOSE i \in found : \A j \in found : i <= j]

\* What the server behind DATA_URL answers: no usable answer, or a file body.
DownloadOutcomes == {"fail", "lfs_pointer", "corrupt", "full"}

\* _download_data: writes the body to dest_path; raises (and writes nothing) on failure.
DownloadData(fs, dest, dl) == [fs EXCEPT ![dest] = dl]

\* What 'git lfs pull' does: not available / non-zero exit (returns False), or exit 0
\* leaving in the work tree's pointer files the content given.
LfsOutcomes == [ok : BOOLEAN, content : {"lfs_pointer", "full"}]

\* The work tree holds Config.DATA_DIR, app/ and the project root; DATA_DIR from the
\* environment lies outside it.
TryGitLfsPull(fs, lfs) ==
    [p \in DOMAIN fs |->
        IF lfs.ok /\ p # ENV_PATH /\ fs[p] = "lfs_pointer" THEN lfs.content ELSE fs[p]]

\* _load_data without the second look at the header after the download or the pull
LoadFromNoRecheck(fs, path, url, dl, lfs) ==
    IF fs[path] = "lfs_pointer"
    THEN IF url
         THEN IF dl = "fail"
              THEN [raised |-> TRUE, obj |-> NoneVal, fs |-> fs]
              ELSE LET fs2 == DownloadData(fs, path, dl)
                   IN  IF fs2[path] = "corrupt"
                       THEN [raised |-> TRUE, obj |-> NoneVal, fs |-> fs2]
                       ELSE [raised |-> FALSE, obj |-> fs2[path], fs |-> fs2]
         ELSE LET fs2 == TryGitLfsPull(fs, lfs)
              IN  IF ~lfs.ok \/ fs2[path] = "corrupt"
                  THEN [raised |-> TRUE, obj |-> NoneVal, fs |-> fs2]
                  ELSE [raised |-> FALSE, obj |-> fs2[path], fs |-> fs2]
    ELSE IF fs[path] = "corrupt"
         THEN [raised |-> TRUE, obj |-> NoneVal, fs |-> fs]
         ELSE [raised |-> FALSE, obj |-> fs[path], fs |-> fs]

\* The part of _load_data after pkl_path is known and holds a file: the LFS pointer
\* check (72-114) and pickle.load (116-118).
LoadFrom(fs, path, url, dl, lfs) ==
    IF fs[path] = "lfs_pointer"
    THEN IF url
         THEN IF dl = "fail"
              THEN [raised |-> TRUE, obj |-> NoneVal, fs |-> fs]
              ELSE LET fs2 == DownloadData(fs, path, dl)
                   IN  IF fs2[path] \in {"lfs_pointer", "corrupt"}
                       THEN [raised |-> TRUE, obj |-> NoneVal, fs |-> fs2]
                       ELSE [raised |-> FALSE, obj |-> fs2[path], fs |-> fs2]
         ELSE LET fs2 == TryGitLfsPull(fs, lfs)
              IN  IF ~lfs.ok \/ fs2[path] \in {"lfs_pointer", "corrupt"}
                  THEN [raised |-> TRUE, obj |-> NoneVal, fs |-> fs2]
                  ELSE [raised |-> FALSE, obj |-> fs2[path], fs |-> fs2]
    ELSE IF fs[path] = "corrupt"
         THEN [raised |-> TRUE, obj |-> NoneVal, fs |-> fs]
         ELSE [raised |-> FALSE, obj |-> fs[path], fs |-> fs]

\* _load_data up to (not including) the assignment of self._datos_procesados:
\* raised (RuntimeError), the unpickled object, and the files as the call leaves them.
LoadData(fs, url, dl, lfs) ==
    LET pkl_path == LocatePkl(fs)
    IN  IF pkl_path = 0
        THEN IF url
             THEN IF dl = "fail"
                  THEN [raised |-> TRUE, obj |-> NoneVal, fs |-> fs]
                  ELSE LoadFrom(DownloadData(fs, APP_PATH, dl), APP_PATH, url, dl, lfs)
             ELSE [raised |-> TRUE, obj |-> NoneVal, fs |-> fs]
        ELSE LoadFrom(fs, pkl_path, url, dl, lfs)

-----------------------------------------------------------------------------
(* DataManager: instance attributes, accessors, is_ready (data_manager.py 13-26, 162-205) *)

\* A fresh object: the class attributes _datos_procesados = None, _is_loaded = False
\* show through until the instance sets its own.
NewObject == [datos_procesados |-> NoneVal, is_loaded |-> FALSE]

\* self._datos_procesados.get(key, default): the kind of bundle and the key name the
\* value; "default" when the key is missing, "raise" when the object is None.
DictGet(datos, key) ==
    IF datos = NoneVal THEN "raise"
    ELSE IF key \in BundleKeys(datos)
         THEN IF key \in BundleEmptyKeys(datos) THEN "empty" ELSE "value"
         ELSE "default"

\* is_ready: return self._is_loaded and self._datos_procesados is not None
is_ready(o) == o.is_loaded /\ o.datos_procesados # NoneVal

\* The spec's readiness: all three structures present and non-empty.
StructuresPresent(o) ==
    /\ o.datos_procesados # NoneVal
    /\ \A key \in {"habilidades", "grupos_bge_ngram", "tfidf_epn_69d"} :
            DictGet(o.datos_procesados, key) = "value"

-----------------------------------------------------------------------------
(* Threads executing DataManager() and the accessors.  Each step is one read or  *)
(* one write of a shared attribute; _load_data's file work is one step.          *)

InstanceOf(t) == instances[self[t]]

\* What a call handed back to its caller: the operation, its result, and (history, for
\* is_ready) whether the three structures were present and non-empty at that moment.
Returned(op, result) == [op |-> op, result |-> result, structures |-> FALSE]

\* A caller begins DataManager().
CallDataManager(t) ==
    /\ pc[t] \in {"idle", "ready", "failed"}
    /\ calls[t] < MaxCalls
    /\ calls' = [calls EXCEPT ![t] = @ + 1]
    /\ pc' = [pc EXCEPT ![t] = "new_check"]
    /\ self' = [self EXCEPT ![t] = 0]
    /\ UNCHANGED <<files, data_url, cls_instance, instances, loaded_obj, observed,
                   loads_started, loads_done, partial_seen>>
    /\ UNCHANGED outsideDM

\* __new__: if cls._instance is None
NewCheck(t) ==
    /\ pc[t] = "new_check"
    /\ pc' = [pc EXCEPT ![t] = IF cls_instance = 0 THEN "new_create" ELSE "new_return"]
    /\ UNCHANGED <<files, data_url, cls_instance, instances, self, loaded_obj, calls,
                   observed, loads_started, loads_done, partial_seen>>
    /\ UNCHANGED outsideDM

\* __new__: cls._instance = super().__new__(cls)
NewCreate(t) ==
    /\ pc[t] = "new_create"
    /\ instances' = Append(instances, NewObject)
    /\ cls_instance' = Len(instances) + 1
    /\ pc' = [pc EXCEPT ![t] = "new_return"]
    /\ UNCHANGED <<files, data_url, self, loaded_obj, calls, observed,
                   loads_started, loads_done, partial_seen>>
    /\ UNCHANGED outsideDM

\* __new__: return cls._instance
NewReturn(t) ==
    /\ pc[t] = "new_return"
    /\ self' = [self EXCEPT ![t] = cls_instance]
    /\ pc' = [pc EXCEPT ![t] = "init_check"]
    /\ UNCHANGED <<files, data_url, cls_instance, instances, loaded_obj, calls,
                   observed, loads_started, loads_done, partial_seen>>
    /\ UNCHANGED outsideDM

\* __init__: if not self._is_loaded
InitCheck(t) ==
    /\ pc[t] = "init_check"
    /\ IF InstanceOf(t).is_loaded
       THEN /\ pc' = [pc EXCEPT ![t] = "ready"]
            /\ observed' = [observed EXCEPT ![t] = Returned("DataManager", "object")]
            /\ UNCHANGED partial_seen
       ELSE /\ pc' = [pc EXCEPT ![t] = "load_data"]
            /\ partial_seen' = (partial_seen \/ InstanceOf(t).datos_procesados # NoneVal)
            /\ UNCHANGED observed
    /\ UNCHANGED <<files, data_url, cls_instance, instances, self, loaded_obj, calls,
                   loads_started, loads_done>>
    /\ UNCHANGED outsideDM

\* __init__: self._load_data(), up to pickle.load's result
InitLoadData(t) ==
    /\ pc[t] = "load_data"
    /\ \E dl \in DownloadOutcomes, lfs \in LfsOutcomes :
        LET r == LoadData(files, data_url, dl, lfs)
        IN  /\ files' = r.fs
            /\ loaded_obj' = [loaded_obj EXCEPT ![t] = r.obj]
            /\ pc' = [pc EXCEPT ![t] = IF r.raised THEN "failed" ELSE "assign"]
            /\ observed' = [observed EXCEPT ![t] =
                    IF r.raised THEN Returned("DataManager", "RuntimeError") ELSE @]
    /\ loads_started' = loads_started + 1
    /\ UNCHANGED <<data_url, cls_instance, instances, self, calls, loads_done, partial_seen>>
    /\ UNCHANGED outsideDM

\* _load_data: self._datos_procesados = pickle.load(f)
InitAssign(t) ==
    /\ pc[t] = "assign"
    /\ instances' = [instances EXCEPT ![self[t]].datos_procesados = loaded_obj[t]]
    /\ loaded_obj' = [loaded_obj EXCEPT ![t] = NoneVal]
    /\ loads_done' = loads_done + 1
    /\ pc' = [pc EXCEPT ![t] = "set_loaded"]
    /\ UNCHANGED <<files, data_url, cls_instance, self, calls, observed,
                   loads_started, partial_seen>>
    /\ UNCHANGED outsideDM

\* __init__ without 'self._is_loaded = True'
InitNotSetLoaded(t) ==
    /\ pc[t] = "set_loaded"
    /\ pc' = [pc EXCEPT ![t] = "ready"]
    /\ observed' = [observed EXCEPT ![t] = Returned("DataManager", "object")]
    /\ UNCHANGED <<files, data_url, cls_instance, instances, self, loaded_obj, calls,
                   loads_started, loads_done, partial_seen>>
    /\ UNCHANGED outsideDM

\* __init__: self._is_loaded = True
InitSetLoaded(t) ==
    /\ pc[t] = "set_loaded"
    /\ instances' = [instances EXCEPT ![self[t]].is_loaded = TRUE]
    /\ pc' = [pc EXCEPT ![t] = "ready"]
    /\ observed' = [observed EXCEPT ![t] = Returned("DataManager", "object")]
    /\ UNCHANGED <<files, data_url, cls_instance, self, loaded_obj, calls,
                   loads_started, loads_done, partial_seen>>
    /\ UNCHANGED outsideDM

\* is_ready() on the object the caller got from DataManager()
CallIsReady(t) ==
    /\ pc[t] = "ready"
    /\ observed' = [observed EXCEPT ![t] =
            [op |-> "is_ready",
             result |-> IF is_ready(InstanceOf(t)) THEN "True" ELSE "False",
             structures |-> StructuresPresent(InstanceOf(t))]]
    /\ UNCHANGED <<files, data_url, cls_instance, instances, pc, self, loaded_obj,
                   calls, loads_started, loads_done, partial_seen>>
    /\ UNCHANGED outsideDM

AccessorKeys == {"habilidades", "grupos_bge_ngram", "tfidf_epn_69d"}

\* The properties habilidades / grupos_bge_ngram / tfidf_epn_69d:
\*   if not self._is_loaded: self._load_data()
\*   return self._datos_procesados.get(key, default)
CallAccessor(t, key) ==
    /\ pc[t] = "ready"
    /\ IF InstanceOf(t).is_loaded
       THEN /\ observed' = [observed EXCEPT ![t] =
                    Returned(key, DictGet(InstanceOf(t).datos_procesados, key))]
            /\ UNCHANGED <<files, instances, loads_started, loads_done>>
       ELSE \E dl \in DownloadOutcomes, lfs \in LfsOutcomes :
            LET r == LoadData(files, data_url, dl, lfs)
            IN  /\ files' = r.fs
                /\ loads_started' = loads_started + 1
                /\ IF r.raised
                   THEN /\ observed' = [observed EXCEPT ![t] = Returned(key, "RuntimeError")]
                        /\ UNCHANGED <<instances, loads_done>>
                   ELSE /\ instances' = [instances EXCEPT
                                            ![self[t]].datos_procesados = r.obj]
                        /\ loads_done' = loads_done + 1
                        /\ observed' = [observed EXCEPT ![t] =
                                            Returned(key, DictGet(r.obj, key))]
    /\ UNCHANGED <<data_url, cls_instance, pc, self, loaded_obj, calls, partial_seen>>
    /\ UNCHANGED outsideDM

\* The bundle files the process can start with.
InitialFiles ==
    { [p \in 1..4 |-> "absent"],
      [p \in 1..4 |-> IF p = ROOT_PATH THEN "full" ELSE "absent"],
      [p \in 1..4 |-> IF p = ROOT_PATH THEN "lfs_pointer" ELSE "absent"],
      [p \in 1..4 |-> IF p = CONFIG_PATH THEN "lfs_pointer"
                      ELSE IF p = ROOT_PATH THEN "full" ELSE "absent"],
      [p \in 1..4 |-> IF p = ENV_PATH THEN "no_habilidades" ELSE "absent"],
      [p \in 1..4 |-> IF p = APP_PATH THEN "empty_grupos" ELSE "absent"],
      [p \in 1..4 |-> IF p = ROOT_PATH THEN "no_tfidf" ELSE "absent"],
      [p \in 1..4 |-> IF p = ROOT_PATH THEN "corrupt" ELSE "absent"] }

DMInit ==
    /\ files \in InitialFiles
    /\ data_url \in BOOLEAN
    /\ cls_instance = 0
    /\ instances = <<>>
    /\ pc = [t \in Threads |-> "idle"]
    /\ self = [t \in Threads |-> 0]
    /\ loaded_obj = [t \in Threads |-> NoneVal]
    /\ calls = [t \in Threads |-> 0]
    /\ observed = [t \in Threads |-> Returned("none", "none")]
    /\ loads_started = 0
    /\ loads_done = 0
    /\ partial_seen = FALSE

AppIdle ==
    /\ app_state = "not_started"
    /\ startup_failed = FALSE
    /\ response = NoResponse

DMNext ==
    \E t \in Threads :
        \/ CallDataManager(t)
        \/ NewCheck(t)
        \/ NewCreate(t)
        \/ NewReturn(t)
        \/ InitCheck(t)
        \/ InitLoadData(t)
        \/ InitAssign(t)
        \/ InitSetLoaded(t)
        \/ CallIsReady(t)
        \/ \E key \in AccessorKeys : CallAccessor(t, key)

InitDM == DMInit /\ AppIdle /\ MapIdle /\ VecIdle /\ EngIdle /\ HistIdle

SpecDM == InitDM /\ [][DMNext]_vars

-----------------------------------------------------------------------------
(* Claims about DataManager under concurrent callers (SpecDM) *)

Loading(t) == pc[t] \in {"load_data", "assign", "set_loaded"}

\* C2: concurrent first-time DataManager() calls load the bundle exactly once: at most
\* one _load_data is ever in progress or completed, and no caller reads the loaded flag
\* unset on an object whose data is already set.
C2_SingleLoad ==
    /\ loads_done <= 1
    /\ Cardinality({t \in Threads : Loading(t)}) <= 1
    /\ ~partial_seen

\* C9: is_ready() returns true if and only if the skill vocabulary, the skill-group
\* mapping and the academic matrix are all three present and non-empty.
C9_ReadyIffStructures ==
    \A t \in Threads :
        observed[t].op = "is_ready" =>
            ((observed[t].result = "True") <=> observed[t].structures)

-----------------------------------------------------------------------------
(* The Flask process: create_app, run.py and the /health route, one request at a time *)

\* DataManager() run to its end by a single caller: __new__ (17-20), __init__ (22-26).
ConstructDataManager(ci, insts, fs, url, dl, lfs) ==
    LET insts1 == IF ci = 0 THEN Append(insts, NewObject) ELSE insts
        ci1 == IF ci = 0 THEN Len(insts) + 1 ELSE ci
    IN  IF insts1[ci1].is_loaded
        THEN [cls_instance |-> ci1, instances |-> insts1, files |-> fs, raised |-> FALSE]
        ELSE LET r == LoadData(fs, url, dl, lfs)
             IN  IF r.raised
                 THEN [cls_instance |-> ci1, instances |-> insts1, files |-> r.fs,
                       raised |-> TRUE]
                 ELSE [cls_instance |-> ci1,
                       instances |-> [insts1 EXCEPT ![ci1] =
                                        [datos_procesados |-> r.obj, is_loaded |-> TRUE]],
                       files |-> r.fs, raised |-> FALSE]

\* create_app: the try/except around DataManager() prints and goes on; the blueprints
\* are registered and the app is returned whatever the load did.
create_app ==
    /\ app_state = "not_started"
    /\ \E dl \in DownloadOutcomes, lfs \in LfsOutcomes :
        LET c == ConstructDataManager(cls_instance, instances, files, data_url, dl, lfs)
        IN  /\ cls_instance' = c.cls_instance
            /\ instances' = c.instances
            /\ files' = c.files
            /\ startup_failed' = c.raised
    /\ app_state' = "created"
    /\ UNCHANGED <<data_url, pc, self, loaded_obj, calls, observed, loads_started,
                   loads_done, partial_seen, response>>
    /\ UNCHANGED outsideApp

\* run.py: app.run(host='0.0.0.0', port=5000, ...)
app_run ==
    /\ app_state = "created"
    /\ app_state' = "serving"
    /\ UNCHANGED <<dmVars, startup_failed, response>>
    /\ UNCHANGED outsideApp

\* GET /api/recommendations/health
health_check ==
    /\ app_state = "serving"
    /\ \E dl \in DownloadOutcomes, lfs \in LfsOutcomes :
        LET c == ConstructDataManager(cls_instance, instances, files, data_url, dl, lfs)
        IN  /\ cls_instance' = c.cls_instance
            /\ instances' = c.instances
            /\ files' = c.files
            /\ response' =
                IF c.raised THEN Response(503, FALSE, "Health check failed")
                ELSE IF is_ready(c.instances[c.cls_instance])
                     THEN Response(200, TRUE, "healthy")
                     ELSE Response(200, TRUE, "not_ready")
    /\ UNCHANGED <<data_url, pc, self, loaded_obj, calls, observed, loads_started,
                   loads_done, partial_seen, app_state, startup_failed>>
    /\ UNCHANGED outsideApp

\* GET /api/recommendations/careers
careers_route ==
    /\ app_state = "serving"
    /\ response' = Response(200, TRUE, "careers")
    /\ UNCHANGED <<dmVars, app_state, startup_failed>>
    /\ UNCHANGED outsideApp

\* GET /api/recommendations/soft-skills-labels
get_soft_skills_labels ==
    /\ app_state = "serving"
    /\ response' = Response(200, TRUE, "labels")
    /\ UNCHANGED <<dmVars, app_state, startup_failed>>
    /\ UNCHANGED outsideApp

ThreadsIdle ==
    /\ pc = [t \in Threads |-> "idle"]
    /\ self = [t \in Threads |-> 0]
    /\ loaded_obj = [t \in Threads |-> NoneVal]
    /\ calls = [t \in Threads |-> 0]
    /\ observed = [t \in Threads |-> Returned("none", "none")]
    /\ loads_started = 0
    /\ loads_done = 0
    /\ partial_seen = FALSE

AppInit ==
    /\ files \in InitialFiles
    /\ data_url \in BOOLEAN
    /\ cls_instance = 0
    /\ instances = <<>>
    /\ ThreadsIdle
    /\ AppIdle

AppNext ==
    \/ create_app
    \/ app_run
    \/ health_check
    \/ careers_route
    \/ get_soft_skills_labels

InitApp == AppInit /\ MapIdle /\ VecIdle /\ EngIdle /\ HistIdle

SpecApp == InitApp /\ [][AppNext]_vars

\* C7: if the bundle cannot be loaded at start-up, start-up aborts: the process never
\* reaches a state in which it serves requests.
C7_NoServingAfterFailedLoad == startup_failed => app_state # "serving"

-----------------------------------------------------------------------------
(* CarreraMapper applied to survey labels *)

MaxPad == 1

\* The labels tried: every survey label of the table, and two that are not in it.
SurveyLabels == DOMAIN MAPEO_CARRERAS \cup {"(RRA20) BIOLOGÍA", ""}

MapInit ==
    /\ mp_input \in {Text(l, c, r) : l \in 0..MaxPad, c \in SurveyLabels, r \in 0..MaxPad}
    /\ mp_career = "unset"
    /\ mp_csv = CsvUnset

\* mapped = CarreraMapper.map_career(label)
CallMapCareer ==
    /\ mp_career = "unset"
    /\ mp_career' = map_career(mp_input)
    /\ UNCHANGED <<mp_input, mp_csv>>
    /\ UNCHANGED outsideMap

\* CarreraMapper.get_career_csv(mapped), for a label that map_career resolved
CallGetCareerCsv ==
    /\ mp_career \notin {"unset", NoneVal}
    /\ mp_csv' = get_career_csv(mp_career)
    /\ UNCHANGED <<mp_input, mp_career>>
    /\ UNCHANGED outsideMap

MapNext == CallMapCareer \/ CallGetCareerCsv

DMIdle ==
    /\ files = [p \in 1..4 |-> IF p = ROOT_PATH THEN "full" ELSE "absent"]
    /\ data_url = FALSE
    /\ cls_instance = 0
    /\ instances = <<>>
    /\ ThreadsIdle

InitMap == MapInit /\ DMIdle /\ AppIdle /\ VecIdle /\ EngIdle /\ HistIdle

SpecMap == InitMap /\ [][MapNext]_vars

\* C8: every canonical career key that map_career can return for a survey label has at
\* least one configured posting source: get_career_csv of it is a non-empty location or
\* a non-empty list of locations.
C8_MappedCareerHasSource == mp_csv.kind # "unset" => CsvTruthy(mp_csv)

-----------------------------------------------------------------------------
(* The reference structures of a complete bundle ("full") *)

\* Dimensions of the shared embedding space.
NUM_TECH == 69
NUM_SOFT == 7
NUM_DIMS == 76

\* A term is a sequence of lower-case words (an n-gram).  'habilidades' lists the terms.
habilidades ==
    [i \in 1..72 |->
        CASE i = 1  -> <<"python">>
          [] i = 2  -> <<"machine", "learning">>
          [] i = 3  -> <<"sql">>
          [] i = 4  -> <<"git">>
          [] i = 5  -> <<"learning">>
          [] i = 70 -> <<"docker">>
          [] i = 71 -> <<"data", "science">>
          [] i = 72 -> <<"excel">>
          [] OTHER  -> <<"skill" \o ToString(i)>>]

\* 'grupos_bge_ngram': the 69 group labels in key order, each with its terms.
grupos_bge_ngram ==
    [g \in 1..NUM_TECH |->
        CASE g = 1 -> {<<"sql">>}
          [] g = 2 -> {<<"python">>, <<"git">>}
          [] g = 3 -> {<<"machine", "learning">>, <<"data", "science">>}
          [] g = 4 -> {<<"docker">>}
          [] g = 5 -> {<<"excel">>}
          [] OTHER -> {<<"skill" \o ToString(g)>>}]

\* 'tfidf_epn_69d': one column per career, 69 rows; weights in hundredths.
AcademicCareers ==
    {"Ingenieria En Software", "Ingenieria En Ciencias De Datos",
     "Ciencias De Datos E Inteligencia Artificial",
     "Ingenieria En Telecomunicacion De La Informacion"}

tfidf_epn_69d ==
    [c \in AcademicCareers |->
        [g \in 1..NUM_TECH |->
            CASE c = "Ingenieria En Software" /\ g \in {1, 2} -> 40
              [] c = "Ingenieria En Software" /\ g = 7 -> 99
              [] c = "Ingenieria En Ciencias De Datos" /\ g \in {1, 3} -> 35
              [] c = "Ciencias De Datos E Inteligencia Artificial" /\ g \in {2, 3} -> 50
              [] c = "Ingenieria En Telecomunicacion De La Informacion" /\ g = 4 -> 20
              [] OTHER -> 0]]

-----------------------------------------------------------------------------
(* Sparse matrices: numpy arrays of a given shape, of which only the non-zero cells
   are stored. *)

\* A function with its values worked out (array contents are values, not formulas).
toarray(f) == f @@ <<>>

Matrix(rows, cols, cells) == [rows |-> rows, cols |-> cols, cells |-> toarray(cells)]
Cell(m, i, j) == IF <<i, j>> \in DOMAIN m.cells THEN m.cells[<<i, j>>] ELSE 0

\* arr.T
Transpose(m) ==
    Matrix(m.cols, m.rows,
           [p \in {<<q[2], q[1]>> : q \in DOMAIN m.cells} |-> m.cells[<<p[2], p[1]>>]])

\* np.vstack of two arrays with the same number of columns
VStack2(a, b) ==
    Matrix(a.rows + b.rows, a.cols,
           [p \in DOMAIN a.cells \cup {<<q[1] + a.rows, q[2]>> : q \in DOMAIN b.cells} |->
                IF p \in DOMAIN a.cells THEN a.cells[p] ELSE b.cells[<<p[1] - a.rows, p[2]>>]])

\* np.vstack accepts the arrays: they have the same number of columns
SameCols(arr_list) == \A a, b \in DOMAIN arr_list : arr_list[a].cols = arr_list[b].cols

RECURSIVE VStack(_)
\* np.vstack(arr_list), arr_list not empty
VStack(arr_list) ==
    IF Len(arr_list) = 1 THEN arr_list[1]
    ELSE VStack2(VStack(SubSeq(arr_list, 1, Len(arr_list) - 1)), arr_list[Len(arr_list)])

-----------------------------------------------------------------------------
(* UserVectorizer  (user_vectorizer.py) *)

\* A text is a sequence of lexemes: words, blanks and the separators re.split cuts at.
\* A value that is not a str has is_str = FALSE.
Str(lexemes) == [is_str |-> TRUE, lex |-> lexemes]
NotAStr == [is_str |-> FALSE, lex |-> <<>>]
Separators == {",", ";", "/", "\n"}
Blank == " "

\* str.lower(), on the words of the model
Lower(w) ==
    CASE w = "Python" -> "python"
      [] w = "GIT" -> "git"
      [] w = "Machine" -> "machine"
      [] w = "Docker" -> "docker"
      [] OTHER -> w

RECURSIVE SplitLex(_, _)
\* re.split(r',|;|/|\n', texto): the pieces between separators, 'cur' being the piece
\* under way
SplitLex(lex, cur) ==
    IF lex = <<>> THEN <<cur>>
    ELSE IF Head(lex) \in Separators
         THEN <<cur>> \o SplitLex(Tail(lex), <<>>)
         ELSE SplitLex(Tail(lex), Append(cur, Head(lex)))

RECURSIVE StripLex(_)
\* a.strip(): without leading and trailing blanks
StripLex(piece) ==
    IF piece = <<>> THEN <<>>
    ELSE IF Head(piece) = Blank THEN StripLex(Tail(piece))
    ELSE IF piece[Len(piece)] = Blank THEN StripLex(SubSeq(piece, 1, Len(piece) - 1))
    ELSE piece

\* _normalize_text: [a.strip().lower() for a in re.split(...) if a.strip()]
normalize_text(texto) ==
    IF ~texto.is_str \/ StripLex(texto.lex) = <<>> THEN <<>>
    ELSE LET pieces == SplitLex(texto.lex, <<>>)
             kept == SelectSeq(pieces, LAMBDA a : StripLex(a) # <<>>)
         IN  [k \in 1..Len(kept) |->
                [j \in 1..Len(StripLex(kept[k])) |-> Lower(StripLex(kept[k])[j])]]

\* TfidfVectorizer's tokens of a text: its words
WordsOf(item) == SelectSeq(item, LAMBDA x : x # Blank)

\* Document frequency of a word among the terms TfidfVectorizer was fitted on.
DocFreq(w) == Cardinality({i \in DOMAIN habilidades : \E k \in DOMAIN habilidades[i] :
                                                        habilidades[i][k] = w})

\* idf = ln((1 + n) / (1 + df)) + 1 in tenths, n = 72 terms
IdfTenths(df) ==
    CASE df = 1 -> 46
      [] df = 2 -> 42
      [] df = 3 -> 39
      [] OTHER  -> 37

TermCount(w, words) == Cardinality({k \in DOMAIN words : words[k] = w})

\* tf * idf of word w in a text; words the vectorizer never saw weigh nothing
TfIdfWeight(w, words) ==
    IF DocFreq(w) = 0 THEN 0 ELSE TermCount(w, words) * IdfTenths(DocFreq(w))

RECURSIVE SumOver(_, _)
SumOver(S, f) ==
    IF S = {} THEN 0
    ELSE LET x == CHOOSE y \in S : TRUE IN f[x] + SumOver(S \ {x}, f)

\* cosine_similarity(vect_asig, vect_hab) >= threshold, threshold = 0.5:
\* dot / (|a| |b|) >= 1/2  iff  4 dot^2 >= |a|^2 |b|^2  (weights are not negative)
SimilarEnough(a, b) ==
    LET ws == {a[k] : k \in DOMAIN a} \cup {b[k] : k \in DOMAIN b}
        dot == SumOver(ws, [w \in ws |-> TfIdfWeight(w, a) * TfIdfWeight(w, b)])
        na == SumOver(ws, [w \in ws |-> TfIdfWeight(w, a) * TfIdfWeight(w, a)])
        nb == SumOver(ws, [w \in ws |-> TfIdfWeight(w, b) * TfIdfWeight(w, b)])
    IN  na > 0 /\ nb > 0 /\ 4 * dot * dot >= na * nb

\* _find_similar_skills: [self.habilidades[i] for i in np.where(sims >= threshold)[0]],
\* the terms found, in the order of 'habilidades'
find_similar_skills(asignatura) ==
    IF WordsOf(asignatura) = <<>> THEN <<>>
    ELSE LET found == SelectSeq([i \in DOMAIN habilidades |-> i],
                        LAMBDA i : SimilarEnough(WordsOf(asignatura), habilidades[i]))
         IN  [k \in DOMAIN found |-> habilidades[found[k]]]

\* self.habilidades.index(skill): the first position holding the term
IndexOf(skill) == CHOOSE i \in DOMAIN habilidades :
                    /\ habilidades[i] = skill
                    /\ \A j \in DOMAIN habilidades : habilidades[j] = skill => i <= j

\* get_academic_vector_69d that answers a career without a column with zeros
get_academic_vector_69d_zeros(carrera) ==
    IF carrera \in DOMAIN tfidf_epn_69d THEN tfidf_epn_69d[carrera]
    ELSE [g \in 1..NUM_TECH |-> 0]

\* get_academic_vector_69d: the career's column, or None
get_academic_vector_69d(carrera) ==
    IF carrera \in DOMAIN tfidf_epn_69d THEN tfidf_epn_69d[carrera] ELSE <<>>

\* 0.99, the personalization weight, in hundredths
PERSONALIZED == 99

RECURSIVE SetSkillsAdditive(_, _)
\* The inner loop with 'vector[skill_idx] += 0.99' for the assignment
SetSkillsAdditive(vector, similar_skills) ==
    IF similar_skills = <<>> THEN vector
    ELSE LET pos == IndexOf(Head(similar_skills))
         IN  SetSkillsAdditive(IF pos <= Len(vector)
                               THEN [vector EXCEPT ![pos] = @ + PERSONALIZED]
                               ELSE vector,
                               Tail(similar_skills))

RECURSIVE SetSkills(_, _)
\* for skill in similar_skills: skill_idx = self.habilidades.index(skill);
\*     if 0 <= skill_idx < len(vector): vector[skill_idx] = 0.99
SetSkills(vector, similar_skills) ==
    IF similar_skills = <<>> THEN vector
    ELSE LET pos == IndexOf(Head(similar_skills))
         IN  SetSkills(IF pos <= Len(vector) THEN [vector EXCEPT ![pos] = PERSONALIZED]
                       ELSE vector,
                       Tail(similar_skills))

\* The outer loop left after its first subject
PersonalizeFirstOnly(vector, items) ==
    IF items = <<>> THEN vector
    ELSE SetSkills(vector, find_similar_skills(Head(items)))

RECURSIVE PersonalizeLoop(_, _)
\* for asignatura in self._normalize_text(asignaturas_relevantes): ...
PersonalizeLoop(vector, items) ==
    IF items = <<>> THEN vector
    ELSE PersonalizeLoop(SetSkills(vector, find_similar_skills(Head(items))), Tail(items))

\* personalize_vector_69d: vector[skill_idx] = 0.99 for every term similar to a subject,
\* skill_idx being the term's position in 'habilidades' (0-based skill_idx < len(vector)
\* is position <= len(vector))
personalize_vector_69d(vector_base_69d, asignaturas_relevantes) ==
    IF Len(vector_base_69d) # NUM_TECH THEN vector_base_69d
    ELSE PersonalizeLoop(vector_base_69d, normalize_text(asignaturas_relevantes))

\* A ratings argument: None, or a list of integers.
Ratings(vals) == [is_none |-> FALSE, vals |-> vals]
NoRatings == [is_none |-> TRUE, vals |-> <<>>]

\* No clipping
NoClip(v) == v

\* np.clip(values, 1, 5)
Clip(v) == IF v < 1 THEN 1 ELSE IF v > 5 THEN 5 ELSE v

\* _normalize_soft_skills without the test of the length
normalize_soft_skills_any_length(valores_1_a_5) ==
    IF valores_1_a_5.is_none \/ valores_1_a_5.vals = <<>>
    THEN [k \in 1..NUM_SOFT |-> 50]
    ELSE [k \in DOMAIN valores_1_a_5.vals |-> (Clip(valores_1_a_5.vals[k]) - 1) * 25]

\* _normalize_soft_skills: (clip(v, 1, 5) - 1) / 4 in hundredths, or 0.5 seven times
normalize_soft_skills(valores_1_a_5) ==
    IF valores_1_a_5.is_none \/ valores_1_a_5.vals = <<>> \/ Len(valores_1_a_5.vals) # NUM_SOFT
    THEN [k \in 1..NUM_SOFT |-> 50]
    ELSE [k \in 1..NUM_SOFT |-> (Clip(valores_1_a_5.vals[k]) - 1) * 25]

\* create_vector_76d: None (the empty tuple) for a career without a column, else the
\* personalized technical vector followed by the soft-skill scores
create_vector_76d(carrera, asignaturas_relevantes, soft_skills_1_to_5) ==
    LET vector_69d == get_academic_vector_69d(carrera)
    IN  IF vector_69d = <<>> THEN <<>>
        ELSE personalize_vector_69d(vector_69d, asignaturas_relevantes)
                \o normalize_soft_skills(soft_skills_1_to_5)

-----------------------------------------------------------------------------
(* UserVectorizer applied to requests *)

\* The subjects texts tried.
SubjectTexts ==
    { Str(<<>>),
      Str(<<"Python">>),
      Str(<<"Python", ",", Blank, "GIT">>),
      Str(<<"GIT", ";", "Python">>),
      Str(<<"Python", ",", "Python">>),
      Str(<<Blank, "Machine", Blank, "learning", Blank, "/", Blank, ",", "sql">>),
      Str(<<"learning", "\n", "Docker">>),
      Str(<<"excel", ",", "cocina">>),
      Str(<<"skill9">>),
      Str(<<"cocina">>),
      NotAStr }

\* The soft-skill ratings tried.
SoftSkillInputs ==
    { Ratings(<<3, 4, 2, 4, 4, 3, 5>>),
      Ratings(<<1, 1, 1, 1, 1, 1, 1>>),
      Ratings(<<5, 5, 5, 5, 5, 5, 5>>),
      Ratings(<<3, 3, 3, 3, 3, 3, 3>>),
      Ratings(<<0, 6, -2, 9, 1, 5, 3>>),
      Ratings(<<3, 4, 2, 4, 4, 3>>),
      Ratings(<<3, 4, 2, 4, 4, 3, 5, 1>>),
      Ratings(<<>>),
      NoRatings }

\* The careers tried: columns of the academic matrix, and names that are not.
CareerInputs == AcademicCareers \cup {"Ingenieria En Mecatronica", "Astrologia"}

VecInit ==
    /\ vz_call \in [carrera : CareerInputs, asignaturas : SubjectTexts,
                    soft_skills : SoftSkillInputs]
    /\ vz_result = [returned |-> FALSE, vector |-> <<>>]

\* vectorizer.create_vector_76d(carrera, asignaturas, soft_skills)
CallCreateVector76d ==
    /\ ~vz_result.returned
    /\ vz_result' = [returned |-> TRUE,
                     vector |-> create_vector_76d(vz_call.carrera, vz_call.asignaturas,
                                                  vz_call.soft_skills)]
    /\ UNCHANGED vz_call
    /\ UNCHANGED outsideVec

VecNext == CallCreateVector76d

InitVec == VecInit /\ DMIdle /\ AppIdle /\ MapIdle /\ EngIdle /\ HistIdle

SpecVec == InitVec /\ [][VecNext]_vars

\* The terms some subject token of the text matches.
MatchedTerms(asignaturas) ==
    LET items == normalize_text(asignaturas)
    IN  UNION {{find_similar_skills(items[k])[j] : j \in DOMAIN find_similar_skills(items[k])}
                : k \in DOMAIN items}

\* C4: personalize_vector_69d sets to 0.99 exactly those technical dimensions whose
\* skill group contains a term matched by some subject token; every other dimension
\* keeps its base academic value.
C4_PersonalizesMatchedGroups ==
    (vz_result.returned /\ vz_result.vector # <<>>) =>
        \A g \in 1..NUM_TECH :
            vz_result.vector[g] =
                IF grupos_bge_ngram[g] \cap MatchedTerms(vz_call.asignaturas) # {}
                THEN PERSONALIZED
                ELSE get_academic_vector_69d(vz_call.carrera)[g]

-----------------------------------------------------------------------------
(* Job offers on disk and their vectorization  (recommender.py) *)

\* One row of a job offers CSV. 'skills', 'description' and 'EURACE_skills' are texts,
\* here the sequences of their words.
Posting(job_title, skills, description, eurace, url) ==
    [job_title |-> job_title, skills |-> skills, description |-> description,
     EURACE_skills |-> eurace, url |-> url]

\* A CSV file: whether it exists, its header and its rows.
CsvFile(columns, rows) == [exists |-> TRUE, columns |-> columns, rows |-> rows]
AbsentFile == [exists |-> FALSE, columns |-> {}, rows |-> <<>>]
AllColumns == {"job_title", "skills", "description", "EURACE_skills", "url"}
required_cols == {"skills", "description", "EURACE_skills"}

\* pd.read_csv(csv_path, dtype=str)
DataFrame(columns, rows) == [columns |-> columns, rows |-> rows]
read_csv(file) == DataFrame(file.columns, file.rows)

\* df_ofertas[['skills', 'description']].fillna('').agg(' '.join, axis=1).str.lower()
textos(df) ==
    toarray([j \in DOMAIN df.rows |->
        LET joined == df.rows[j].skills \o df.rows[j].description
        IN  toarray([k \in DOMAIN joined |-> Lower(joined[k])])])

\* CountVectorizer(vocabulary=habilidades, ngram_range=(1, 5)): how many times the
\* term occurs in the text as a run of 1 to 5 consecutive words
NGramCount(term, words) ==
    IF Len(term) > 5 \/ Len(term) > Len(words) THEN 0
    ELSE Cardinality({k \in 1..(Len(words) - Len(term) + 1) :
                        SubSeq(words, k, k + Len(term) - 1) = term})

\* vectorizer.get_feature_names_out(): the terms of the vocabulary
feature_names == {habilidades[i] : i \in DOMAIN habilidades}

\* matriz_69d.loc[label] = matriz_td.loc[terms_validos].sum(axis=0)
GroupCount(g, words) ==
    LET terms_validos == grupos_bge_ngram[g] \cap feature_names
    IN  SumOver(terms_validos, [t \in terms_validos |-> NGramCount(t, words)])

\* The first words of the valid terms of each group.
FirstWords == [g \in 1..NUM_TECH |-> {t[1] : t \in grupos_bge_ngram[g] \cap feature_names}]

\* matriz_69d: 69 rows (groups) by one column per offer
matriz_69d(txts) ==
    LET wordsof(j) == {txts[j][k] : k \in DOMAIN txts[j]}
        \* the groups with a term that starts with a word of text j: the others count 0
        started == {p \in (1..NUM_TECH) \X DOMAIN txts : FirstWords[p[1]] \cap wordsof(p[2]) # {}}
        counts == toarray([p \in started |-> GroupCount(p[1], txts[p[2]])])
        nz == {p \in started : counts[p] > 0}
    IN  Matrix(NUM_TECH, Len(txts), [p \in nz |-> counts[p]])

\* TfidfTransformer: idf = ln((1 + n) / (1 + df)) + 1 in hundredths, n = 69 rows;
\* entry df + 1 of the table is the idf of a column that df rows use
IdfTable ==
    <<525, 456, 415, 386, 364, 346, 330, 317, 305, 295, 285, 276, 268, 261, 254, 248,
      242, 236, 230, 225, 220, 216, 211, 207, 203, 199, 195, 192, 188, 185, 181, 178,
      175, 172, 169, 166, 164, 161, 158, 156, 153, 151, 149, 146, 144, 142, 140, 138,
      136, 134, 132, 130, 128, 126, 124, 122, 121, 119, 117, 115, 114, 112, 111, 109,
      107, 106, 104, 103, 101, 100>>

RECURSIVE SqrtBetween(_, _, _)
\* the integer part of the square root of n, sought between lo and hi
SqrtBetween(n, lo, hi) ==
    IF lo >= hi THEN lo
    ELSE LET mid == (lo + hi + 1) \div 2
         IN  IF mid * mid <= n THEN SqrtBetween(n, mid, hi) ELSE SqrtBetween(n, lo, mid - 1)

Sqrt(n) == SqrtBetween(n, 0, IF n < 46340 THEN n ELSE 46340)

\* Weights of the posting matrices are kept in thousandths.
ONE == 1000

\* TfidfTransformer(norm='l2').fit_transform(X), X of shape (69, N): the rows of X are
\* its samples and the columns its features, so the idf is per column and each row is
\* scaled to length 1
TfidfTransform(X) ==
    LET nz == DOMAIN X.cells
        docfreq == toarray([j \in {p[2] : p \in nz} |-> Cardinality({p \in nz : p[2] = j})])
        w == toarray([p \in nz |-> X.cells[p] * IdfTable[docfreq[p[2]] + 1]])
        rowcells(g) == {p \in nz : p[1] = g}
        norm == toarray([g \in {p[1] : p \in nz} |->
                    Sqrt(SumOver(rowcells(g), [p \in rowcells(g) |-> w[p] * w[p]]))])
    IN  Matrix(X.rows, X.cols, [p \in nz |-> (w[p] * ONE) \div norm[p[1]]])

\* What _load_job_offers works out for a file that is not in the cache (lines 40-86):
\* None, or the tuple (df_ofertas, tfidf_69d_array).
NoOffers == [is_none |-> TRUE, df |-> DataFrame({}, <<>>), arr |-> Matrix(0, 0, <<>>)]
Offers(df, arr) == [is_none |-> FALSE, df |-> df, arr |-> arr]

\* _load_job_offers without the check of the required columns
LoadAndVectorizeAnyColumns(file) ==
    IF ~file.exists THEN NoOffers
    ELSE IF Len(read_csv(file).rows) = 0 THEN NoOffers
    ELSE Offers(read_csv(file), TfidfTransform(matriz_69d(textos(read_csv(file)))))

LoadAndVectorize(file) ==
    IF ~file.exists THEN NoOffers
    ELSE IF ~(required_cols \subseteq read_csv(file).columns) THEN NoOffers
    \* TfidfTransformer rejects a matrix without columns; the except clause returns None
    ELSE IF Len(read_csv(file).rows) = 0 THEN NoOffers
    ELSE Offers(read_csv(file), TfidfTransform(matriz_69d(textos(read_csv(file)))))

-----------------------------------------------------------------------------
(* RecommendationEngine  (recommender.py) *)

\* df_ofertas.iloc[idx].get(col, default), idx counted from 1
RowGet(df, idx, col, default) ==
    IF col \in df.columns THEN df.rows[idx][col] ELSE default

soft_skills_keywords ==
    <<"gestion", "comunicacion", "liderazgo", "equipo", "etica", "responsabilidad",
      "aprendizaje">>

\* The keywords that are substrings of a lower-cased word of an EURACE_skills text.
KeywordsIn(word) ==
    CASE word \in {"gestion", "Gestion", "autogestion"} -> {"gestion"}
      [] word \in {"comunicacion", "Comunicacion"} -> {"comunicacion"}
      [] word \in {"liderazgo"} -> {"liderazgo"}
      [] word \in {"equipo", "equipos"} -> {"equipo"}
      [] word \in {"etica", "poetica"} -> {"etica"}
      [] word \in {"responsabilidad"} -> {"responsabilidad"}
      [] word \in {"aprendizaje"} -> {"aprendizaje"}
      [] OTHER -> {}

\* for skill_idx, keyword in enumerate(soft_skills_keywords): if keyword in
\* eurace_skills: the skill_idx (counted from 1) for which the test holds
SoftSkillsIn(eurace_skills) ==
    LET found == UNION {KeywordsIn(eurace_skills[k]) : k \in DOMAIN eurace_skills}
    IN  {skill_idx \in DOMAIN soft_skills_keywords : soft_skills_keywords[skill_idx] \in found}

\* The result of a call that can raise.
Raised == [raised |-> TRUE, value |-> Matrix(0, 0, <<>>)]
Value(v) == [raised |-> FALSE, value |-> v]

\* _expand_offers_to_76d without the shape test of lines 107-108: the offers' rows take
\* what cells of the array fall inside (num_offers, 69)
expand_offers_to_76d_any_shape(tfidf_69d_array, df_ofertas) ==
    LET num_offers == Len(df_ofertas.rows)
        arr == IF tfidf_69d_array.rows = NUM_TECH /\ tfidf_69d_array.cols = num_offers
               THEN Transpose(tfidf_69d_array)
               ELSE tfidf_69d_array
        inside == {p \in DOMAIN arr.cells : p[1] <= num_offers /\ p[2] <= NUM_TECH}
        soft == UNION {{<<idx, skill_idx>> : skill_idx \in
                            SoftSkillsIn(RowGet(df_ofertas, idx, "EURACE_skills", <<>>))}
                        : idx \in 1..num_offers}
    IN  Value(Matrix(num_offers, NUM_DIMS,
                [p \in inside \cup {<<q[1], NUM_TECH + q[2]>> : q \in soft} |->
                    IF p[2] <= NUM_TECH THEN arr.cells[p] ELSE ONE]))

\* _expand_offers_to_76d(tfidf_69d_array, df_ofertas)
expand_offers_to_76d(tfidf_69d_array, df_ofertas) ==
    LET num_offers == Len(df_ofertas.rows)
        arr == IF tfidf_69d_array.rows = NUM_TECH /\ tfidf_69d_array.cols = num_offers
               THEN Transpose(tfidf_69d_array)
               ELSE tfidf_69d_array
        soft == UNION {{<<idx, skill_idx>> : skill_idx \in
                            SoftSkillsIn(RowGet(df_ofertas, idx, "EURACE_skills", <<>>))}
                        : idx \in 1..num_offers}
    IN  IF arr.rows # num_offers \/ arr.cols # NUM_TECH THEN Raised
        ELSE Value(Matrix(num_offers, NUM_DIMS,
                    [p \in DOMAIN arr.cells \cup {<<q[1], NUM_TECH + q[2]>> : q \in soft} |->
                        IF p[2] <= NUM_TECH THEN arr.cells[p] ELSE ONE]))

\* The least integer whose square is at least n.
SqrtUp(n) == LET r == Sqrt(n) IN IF r * r = n THEN r ELSE r + 1

\* cosine_similarity([student_vector_76d], vectores_76d)[0], in thousandths; a vector
\* of length 0 has similarity 0 to everything
cosine_similarity(student, vectores) ==
    LET sdims == {d \in DOMAIN student : student[d] # 0}
        snorm == SqrtUp(SumOver(sdims, [d \in sdims |-> student[d] * student[d]]))
        rdims(i) == {p \in DOMAIN vectores.cells : p[1] = i}
        rnorm(i) == SqrtUp(SumOver(rdims(i),
                        [p \in rdims(i) |-> vectores.cells[p] * vectores.cells[p]]))
        both(i) == {p \in rdims(i) : p[2] \in sdims}
        dot(i) == SumOver(both(i), [p \in both(i) |-> student[p[2]] * vectores.cells[p]])
    IN  toarray([i \in 1..vectores.rows |->
            IF snorm = 0 \/ rnorm(i) = 0 THEN 0
            ELSE (dot(i) * ONE) \div (snorm * rnorm(i))])

\* np.argsort(similarities): the indices by ascending similarity. The default sort is
\* not stable: where equal similarities end up depends on the numpy build ('ties').
argsort(similarities, ties) ==
    SortSeq([i \in DOMAIN similarities |-> i],
            LAMBDA a, b : \/ similarities[a] < similarities[b]
                          \/ /\ similarities[a] = similarities[b]
                             /\ IF ties = "index_ascending" THEN a < b ELSE a > b)

\* The order of np.argsort kept as it is
NotReversed(s) == s

\* [::-1]
Reversed(s) == [k \in DOMAIN s |-> s[Len(s) + 1 - k]]

RECURSIVE TopWithDuplicates(_, _, _, _, _, _)
\* The walk of lines 199-221 without the test 'cargo_titulo not in cargos_vistas'
TopWithDuplicates(indices_ordenados, df_ofertas, similarities, top_n, resultado, cargos_vistas) ==
    IF indices_ordenados = <<>> \/ Len(resultado) >= top_n THEN resultado
    ELSE LET idx_oferta == Head(indices_ordenados)
         IN  TopWithDuplicates(Tail(indices_ordenados), df_ofertas, similarities, top_n,
                 Append(resultado,
                        [rank |-> Len(resultado) + 1,
                         similitud |-> similarities[idx_oferta],
                         cargo |-> RowGet(df_ofertas, idx_oferta, "job_title", "N/A"),
                         eurace_skills |-> RowGet(df_ofertas, idx_oferta,
                                                  "EURACE_skills", <<"N/A">>),
                         url |-> RowGet(df_ofertas, idx_oferta, "url", "")]),
                 cargos_vistas)

RECURSIVE TopUnique(_, _, _, _, _, _)
\* for idx_oferta in indices_ordenados: ... (lines 199-221)
TopUnique(indices_ordenados, df_ofertas, similarities, top_n, resultado, cargos_vistas) ==
    IF indices_ordenados = <<>> \/ Len(resultado) >= top_n THEN resultado
    ELSE LET idx_oferta == Head(indices_ordenados)
             cargo_titulo == RowGet(df_ofertas, idx_oferta, "job_title", "N/A")
         IN  IF cargo_titulo \notin cargos_vistas
             THEN TopUnique(Tail(indices_ordenados), df_ofertas, similarities, top_n,
                      Append(resultado,
                             [rank |-> Len(resultado) + 1,
                              similitud |-> similarities[idx_oferta],
                              cargo |-> cargo_titulo,
                              eurace_skills |-> RowGet(df_ofertas, idx_oferta,
                                                       "EURACE_skills", <<"N/A">>),
                              url |-> RowGet(df_ofertas, idx_oferta, "url", "")]),
                      cargos_vistas \cup {cargo_titulo})
             ELSE TopUnique(Tail(indices_ordenados), df_ofertas, similarities, top_n,
                            resultado, cargos_vistas)

\* _load_job_offers without the cache check of lines 37-38: every call reads and
\* vectorizes the file
load_job_offers_uncached(csv_path, cache, disk) ==
    LET loaded == LoadAndVectorize(disk[csv_path])
    IN  IF loaded.is_none
        THEN [result |-> NoOffers, cache |-> cache, vectorized |-> FALSE]
        ELSE [result |-> loaded,
              cache |-> [p \in DOMAIN cache \cup {csv_path} |->
                           IF p = csv_path THEN loaded ELSE cache[p]],
              vectorized |-> TRUE]

\* _load_job_offers with the cache write of line 80 placed before the TF-IDF step of
\* lines 75-77: the call that loads returns the weighted matrix, the cache keeps the
\* counts
load_job_offers_caches_counts(csv_path, cache, disk) ==
    IF csv_path \in DOMAIN cache
    THEN [result |-> cache[csv_path], cache |-> cache, vectorized |-> FALSE]
    ELSE LET loaded == LoadAndVectorize(disk[csv_path])
         IN  IF loaded.is_none
             THEN [result |-> NoOffers, cache |-> cache, vectorized |-> FALSE]
             ELSE [result |-> loaded,
                   cache |-> [p \in DOMAIN cache \cup {csv_path} |->
                                IF p = csv_path
                                THEN Offers(loaded.df, matriz_69d(textos(loaded.df)))
                                ELSE cache[p]],
                   vectorized |-> TRUE]

\* _load_job_offers with the None of a failed load written to the cache as well
load_job_offers_caches_failure(csv_path, cache, disk) ==
    IF csv_path \in DOMAIN cache
    THEN [result |-> cache[csv_path], cache |-> cache, vectorized |-> FALSE]
    ELSE LET loaded == LoadAndVectorize(disk[csv_path])
         IN  [result |-> loaded,
              cache |-> [p \in DOMAIN cache \cup {csv_path} |->
                           IF p = csv_path THEN loaded ELSE cache[p]],
              vectorized |-> ~loaded.is_none]

\* _load_job_offers(csv_path) against the cache and the files: what it returns, the
\* cache afterwards, and whether it loaded and vectorized the file
load_job_offers(csv_path, cache, disk) ==
    IF csv_path \in DOMAIN cache
    THEN [result |-> cache[csv_path], cache |-> cache, vectorized |-> FALSE]
    ELSE LET loaded == LoadAndVectorize(disk[csv_path])
         IN  IF loaded.is_none
             THEN [result |-> NoOffers, cache |-> cache, vectorized |-> FALSE]
             ELSE [result |-> loaded,
                   cache |-> [p \in DOMAIN cache \cup {csv_path} |->
                                IF p = csv_path THEN loaded ELSE cache[p]],
                   vectorized |-> TRUE]

\* if arr.shape[0] == 69: arr = arr.T  (lines 174-175)
AsRows(arr) == IF arr.rows = NUM_TECH THEN Transpose(arr) ELSE arr

RECURSIVE LoadSources(_, _, _)
\* for csv_full_path in full_paths: ... (lines 166-177): df_list, arr_list, the cache
\* afterwards and the paths loaded and vectorized on the way
LoadSources(full_paths, cache, disk) ==
    IF full_paths = <<>>
    THEN [df_list |-> <<>>, arr_list |-> <<>>, cache |-> cache, vectorized |-> <<>>]
    ELSE LET r == load_job_offers(Head(full_paths), cache, disk)
             rest == LoadSources(Tail(full_paths), r.cache, disk)
             arr == AsRows(r.result.arr)
         IN  [df_list |-> IF r.result.is_none THEN rest.df_list
                          ELSE <<r.result.df>> \o rest.df_list,
              arr_list |-> IF r.result.is_none THEN rest.arr_list
                           ELSE <<arr>> \o rest.arr_list,
              cache |-> rest.cache,
              vectorized |-> IF r.vectorized THEN <<Head(full_paths)>> \o rest.vectorized
                             ELSE rest.vectorized]

\* The rows of a frame once it has the given columns: a cell of a column the frame did
\* not have is NaN, which str() turns into 'nan'.
Reindexed(df, columns) ==
    [k \in DOMAIN df.rows |->
        [df.rows[k] EXCEPT
            !.job_title = IF "job_title" \in columns \ df.columns THEN "nan" ELSE @,
            !.url = IF "url" \in columns \ df.columns THEN "nan" ELSE @]]

RECURSIVE Concat(_)
\* pd.concat(df_list, ignore_index=True)
Concat(df_list) ==
    IF Len(df_list) = 1 THEN df_list[1]
    ELSE LET rest == Concat(Tail(df_list))
             columns == df_list[1].columns \cup rest.columns
         IN  DataFrame(columns, Reindexed(df_list[1], columns) \o Reindexed(rest, columns))

\* What get_recommendations hands back: None, the rows of the DataFrame, or an
\* exception; with the concatenated corpus and its matrix for reference.
NoRecommendations ==
    [kind |-> "None", rows |-> <<>>, df_ofertas |-> DataFrame({}, <<>>),
     vectores_76d |-> Matrix(0, 0, <<>>)]

Ranked(indices_ordenados, df_ofertas, vectores_76d, similarities, top_n) ==
    LET resultado == TopUnique(indices_ordenados, df_ofertas, similarities, top_n, <<>>, {})
    IN  [kind |-> IF resultado = <<>> THEN "None" ELSE "DataFrame",
         rows |-> resultado, df_ofertas |-> df_ofertas, vectores_76d |-> vectores_76d]

\* Lines 179-226 of get_recommendations: what it returns for the frames and arrays
\* collected from the sources
RankOffers(student_vector_76d, df_list, arr_list, top_n, ties) ==
    LET df_ofertas == Concat(df_list)
        expanded == expand_offers_to_76d(VStack(arr_list), df_ofertas)
        similarities == cosine_similarity(student_vector_76d, expanded.value)
    IN  IF df_list = <<>> THEN NoRecommendations
        \* np.vstack raises ValueError for arrays that differ in their second dimension
        ELSE IF ~SameCols(arr_list) THEN [NoRecommendations EXCEPT !.kind = "raised"]
        ELSE IF expanded.raised THEN [NoRecommendations EXCEPT !.kind = "raised"]
        ELSE Ranked(Reversed(argsort(similarities, ties)), df_ofertas, expanded.value,
                    similarities, top_n)

\* if top_n < 1: top_n = 1
EffectiveTopNOne(top_n) == IF top_n < 1 THEN 1 ELSE top_n

\* if top_n < 1: top_n = 5
EffectiveTopN(top_n) == IF top_n < 1 THEN 5 ELSE top_n

\* Lines 153-156 alone: the career has no source
RejectedEarlyCareerOnly(student_vector_76d, carrera) ==
    ~CsvTruthy(get_career_csv(carrera))

\* Lines 147-156 of get_recommendations: the call returns None before any source is
\* looked at
RejectedEarly(student_vector_76d, carrera) ==
    \/ Len(student_vector_76d) # NUM_DIMS
    \/ ~CsvTruthy(get_career_csv(carrera))

\* get_recommendations(student_vector_76d, carrera, top_n): the outcome, the cache
\* afterwards and the paths loaded and vectorized
get_recommendations(student_vector_76d, carrera, top_n, cache, disk, ties) ==
    LET src == LoadSources(get_career_csv(carrera).paths, cache, disk)
    IN  IF RejectedEarly(student_vector_76d, carrera)
        THEN [out |-> NoRecommendations, cache |-> cache, vectorized |-> <<>>]
        ELSE [out |-> RankOffers(student_vector_76d, src.df_list, src.arr_list,
                                 EffectiveTopN(top_n), ties),
              cache |-> src.cache, vectorized |-> src.vectorized]

-----------------------------------------------------------------------------
(* Job offers files tried *)

SoftwareCsv == "todas_las_plataformas/Software/Software_Merged.csv"
CienciaDeDatosCsv == "todas_las_plataformas/Ciencia_de_Datos/Ciencia_de_Datos_Merged.csv"
InteligenciaArtificialCsv ==
    "todas_las_plataformas/Inteligencia_Artificial/Inteligencia_Artificial_Merged.csv"
CsvPaths == {SoftwareCsv, CienciaDeDatosCsv, InteligenciaArtificialCsv}

\* A file with two pairs of offers of equal text (one pair under the same title, one
\* under two titles), and two offers that use no term of the vocabulary.
SoftwareRows ==
    <<Posting("Backend Developer", <<"Python", "sql">>, <<"api">>, <<"equipo">>, "sw1"),
      Posting("Backend Developer", <<"python", "sql">>, <<"api">>, <<"equipo">>, "sw2"),
      Posting("Data Analyst", <<"excel">>, <<"sql", "sql">>, <<"Gestion">>, "sw3"),
      Posting("DevOps", <<"Docker", "GIT">>, <<"skill9">>, <<>>, "sw4"),
      Posting("SRE", <<"docker", "git">>, <<"skill9">>, <<>>, "sw5"),
      Posting("Cook", <<"cocina">>, <<>>, <<"poetica">>, "sw6"),
      Posting("Driver", <<"camion">>, <<>>, <<"gestión">>, "sw7")>>

InteligenciaArtificialRows ==
    <<Posting("ML Engineer", <<"Machine", "learning">>, <<"python">>, <<"liderazgo">>, "ia1"),
      Posting("Data Scientist", <<"data", "science">>, <<"python", "sql">>, <<>>, "ia2")>>

CienciaDeDatosRows ==
    <<Posting("Data Scientist", <<"data", "science">>, <<"python", "sql">>, <<>>, "ds1"),
      Posting("Data Engineer", <<"sql">>, <<"skill7", "docker">>, <<"aprendizaje">>, "ds2"),
      Posting("ML Engineer", <<"machine", "learning">>, <<"python">>, <<"liderazgo">>, "ds3")>>

\* n offers, each naming one skill of its own, numbered from 'first'
NumberedRows(n, first) ==
    [k \in 1..n |->
        Posting("Job " \o ToString(first + k - 1),
                <<"skill" \o ToString(5 + ((first + k - 2) % 64) + 1)>>,
                IF k % 2 = 0 THEN <<"python">> ELSE <<>>,
                IF k % 3 = 0 THEN <<"equipo">> ELSE <<>>,
                "n" \o ToString(first + k - 1))]

\* The contents of the three files, as functions of the path.
Disk(software, inteligencia, datos) ==
    [p \in CsvPaths |->
        CASE p = SoftwareCsv -> software
          [] p = InteligenciaArtificialCsv -> inteligencia
          [] p = CienciaDeDatosCsv -> datos]

SmallDisks ==
    { Disk(CsvFile(AllColumns, SoftwareRows),
           CsvFile(AllColumns, InteligenciaArtificialRows),
           CsvFile(AllColumns, CienciaDeDatosRows)),
      Disk(AbsentFile, AbsentFile, CsvFile(AllColumns, CienciaDeDatosRows)),
      Disk(CsvFile(AllColumns \ {"EURACE_skills"}, SoftwareRows),
           CsvFile(AllColumns, InteligenciaArtificialRows),
           CsvFile({"job_title", "url"}, CienciaDeDatosRows)),
      Disk(CsvFile(AllColumns, <<>>), AbsentFile,
           CsvFile(AllColumns \ {"skills"}, CienciaDeDatosRows)),
      Disk(CsvFile(required_cols, SoftwareRows),
           CsvFile(required_cols \cup {"url"}, InteligenciaArtificialRows),
           CsvFile(AllColumns, CienciaDeDatosRows)) }

\* Files whose offers add up to about as many as there are technical dimensions.
LargeDisks ==
    { Disk(CsvFile(AllColumns, NumberedRows(NUM_TECH, 1)),
           CsvFile(AllColumns, NumberedRows(34, 1)),
           CsvFile(AllColumns, NumberedRows(35, 35))),
      Disk(CsvFile(AllColumns, NumberedRows(NUM_TECH - 1, 1)),
           CsvFile(AllColumns, NumberedRows(34, 1)),
           CsvFile(AllColumns, NumberedRows(36, 35))),
      Disk(AbsentFile, AbsentFile, CsvFile(AllColumns, NumberedRows(NUM_TECH, 1))) }

-----------------------------------------------------------------------------
(* get_recommendations and clear_cache as operations on the cache *)

\* A get_recommendations call: its arguments.
Call(student_vector_76d, carrera, top_n) ==
    [student_vector_76d |-> student_vector_76d, carrera |-> carrera, top_n |-> top_n]
NoCall == Call(<<>>, "", 0)

\* A thread's call: where it is, the sources not yet visited, df_list and arr_list,
\* the tuple _load_job_offers is about to cache, and the result once it has returned.
Request(pc_, call, todo, df_list, arr_list, loaded, out) ==
    [pc |-> pc_, call |-> call, todo |-> todo, df_list |-> df_list,
     arr_list |-> arr_list, loaded |-> loaded, out |-> out]
IdleRequest == Request("idle", NoCall, <<>>, <<>>, <<>>, NoOffers, NoRecommendations)

\* The student vectors tried: built by create_vector_76d, and two that are not valid.
StudentVectors ==
    { create_vector_76d("Ingenieria En Software", Str(<<"Python", ",", "sql">>),
                        Ratings(<<3, 4, 2, 4, 4, 3, 5>>)),
      create_vector_76d("Ciencias De Datos E Inteligencia Artificial", Str(<<>>),
                        NoRatings),
      SubSeq(create_vector_76d("Ingenieria En Software", Str(<<>>), NoRatings),
             1, NUM_DIMS - 1),
      create_vector_76d("Astrologia", Str(<<>>), NoRatings) }

\* The careers tried: one with one file, one with two, one with the file of another,
\* one without a file, one that is no career.
EngineCareers ==
    {"Ingenieria En Software", "Ciencias De Datos E Inteligencia Artificial",
     "Ingenieria En Ciencias De Datos", "Ingenieria En Telecomunicacion De La Informacion",
     "Astrologia"}

MaxTopN == 3
TopNs == -1..MaxTopN \cup {5, 8}

EngInit(disks) ==
    /\ csv_files \in disks
    /\ ofertas_cache = <<>>
    /\ vectorized = [p \in CsvPaths |-> 0]
    /\ argsort_ties \in {"index_ascending", "index_descending"}
    /\ rq = [t \in Threads |-> IdleRequest]

MainThread == 1

\* A caller invokes engine.get_recommendations(student_vector_76d, carrera, top_n).
CallGetRecommendations(t, students, careers, top_ns) ==
    \E student \in students, carrera \in careers, top_n \in top_ns :
        /\ rq[t].pc = "idle"
        /\ rq' = [rq EXCEPT ![t] = [IdleRequest EXCEPT !.pc = "called",
                                        !.call = Call(student, carrera, top_n)]]
        /\ UNCHANGED <<csv_files, ofertas_cache, vectorized, argsort_ties>>
        /\ UNCHANGED outsideEng

\* get_recommendations run from its first line to its return, with no other thread
\* in between
GetRecommendations ==
    /\ rq[MainThread].pc = "called"
    /\ \E r \in {get_recommendations(rq[MainThread].call.student_vector_76d,
                                     rq[MainThread].call.carrera,
                                     rq[MainThread].call.top_n,
                                     ofertas_cache, csv_files, argsort_ties)} :
        /\ ofertas_cache' = r.cache
        /\ vectorized' = [p \in CsvPaths |->
                            vectorized[p] + Cardinality({k \in DOMAIN r.vectorized :
                                                            r.vectorized[k] = p})]
        /\ rq' = [rq EXCEPT ![MainThread].pc = "returned", ![MainThread].out = r.out]
    /\ UNCHANGED <<csv_files, argsort_ties>>
    /\ UNCHANGED outsideEng

\* The caller is done with the result.
Done(t) ==
    /\ rq[t].pc = "returned"
    /\ rq' = [rq EXCEPT ![t] = IdleRequest]
    /\ UNCHANGED <<csv_files, ofertas_cache, vectorized, argsort_ties>>
    /\ UNCHANGED outsideEng

\* engine.clear_cache()
ClearCache ==
    /\ ofertas_cache # <<>>
    /\ ofertas_cache' = <<>>
    /\ vectorized' = [p \in CsvPaths |-> 0]
    /\ UNCHANGED <<csv_files, argsort_ties, rq>>
    /\ UNCHANGED outsideEng

Caller == CallGetRecommendations(MainThread, StudentVectors, EngineCareers, TopNs)
CallerDone == Done(MainThread)
\* clear_cache between calls
ClearCacheBetween == rq[MainThread].pc = "idle" /\ ClearCache

EngNext == Caller \/ GetRecommendations \/ CallerDone \/ ClearCacheBetween

InitEng == EngInit(SmallDisks) /\ DMIdle /\ AppIdle /\ MapIdle /\ VecIdle /\ HistIdle

SpecEng == InitEng /\ [][EngNext]_vars

-----------------------------------------------------------------------------
(* Properties of the ranking *)

\* The call of the main thread has returned rows.
ReturnedRows == rq[MainThread].pc = "returned" /\ rq[MainThread].out.kind = "DataFrame"

\* The titles of the returned rows are pairwise different.
DistinctTitles(rows) ==
    \A a, b \in DOMAIN rows : rows[a].cargo = rows[b].cargo => a = b

\* C6 (as stated): for every student vector, career and top_n, the result holds at
\* most top_n rows and no two rows with the same job title.
C6_AtMostTopNRows ==
    ReturnedRows =>
        /\ Len(rq[MainThread].out.rows) <= rq[MainThread].call.top_n
        /\ DistinctTitles(rq[MainThread].out.rows)

\* C6 (amended): the result holds at most top_n rows when top_n >= 1 and at most 5
\* rows when top_n < 1, and never two rows with the same job title.
C6_AtMostTopNOrFiveRows ==
    ReturnedRows =>
        /\ Len(rq[MainThread].out.rows) <=
              (IF rq[MainThread].call.top_n >= 1 THEN rq[MainThread].call.top_n ELSE 5)
        /\ DistinctTitles(rq[MainThread].out.rows)

\* A call whose corpus holds a title twice has returned as many rows as it asked for.
C6_Witness ==
    /\ ReturnedRows
    /\ rq[MainThread].call.top_n >= 2
    /\ Len(rq[MainThread].out.rows) = rq[MainThread].call.top_n
    /\ \E a, b \in DOMAIN rq[MainThread].out.df_ofertas.rows :
          /\ a # b
          /\ rq[MainThread].out.df_ofertas.rows[a].job_title =
                rq[MainThread].out.df_ofertas.rows[b].job_title
          /\ \E k \in DOMAIN rq[MainThread].out.rows :
                rq[MainThread].out.rows[k].url = rq[MainThread].out.df_ofertas.rows[a].url

\* The index in the concatenated corpus of the offer a returned row was made from
\* (the files tried give every offer an url of its own).
OfferIndex(out, row) ==
    CHOOSE i \in DOMAIN out.df_ofertas.rows : out.df_ofertas.rows[i].url = row.url

\* C5: whenever two postings have equal similarity to the student vector, the one
\* with the lower index in the concatenated corpus is visited first: it is the one
\* emitted for a shared title, and it receives the better rank.
C5_TiesInCorpusOrder ==
    (ReturnedRows /\ "url" \in rq[MainThread].out.df_ofertas.columns) =>
        LET out == rq[MainThread].out
            sims == cosine_similarity(rq[MainThread].call.student_vector_76d,
                                      out.vectores_76d)
        IN  /\ \A k \in DOMAIN out.rows : \A j \in DOMAIN out.df_ofertas.rows :
                  (/\ RowGet(out.df_ofertas, j, "job_title", "N/A") = out.rows[k].cargo
                   /\ sims[j] = out.rows[k].similitud)
                  => OfferIndex(out, out.rows[k]) <= j
            /\ \A a, b \in DOMAIN out.rows :
                  (a < b /\ out.rows[a].similitud = out.rows[b].similitud)
                  => OfferIndex(out, out.rows[a]) < OfferIndex(out, out.rows[b])

\* The file can be loaded: it exists, has the required columns and at least one row.
Loadable(file) ==
    file.exists /\ required_cols \subseteq file.columns /\ Len(file.rows) > 0

RECURSIVE RowsOfLoadable(_)
\* The rows of the loadable files among the paths, in the order of the paths.
RowsOfLoadable(paths) ==
    IF paths = <<>> THEN <<>>
    ELSE (IF Loadable(csv_files[Head(paths)]) THEN csv_files[Head(paths)].rows ELSE <<>>)
         \o RowsOfLoadable(Tail(paths))

\* What the three required texts of the rows are, in order.
Texts(rows) ==
    [k \in DOMAIN rows |-> <<rows[k].skills, rows[k].description, rows[k].EURACE_skills>>]

\* The call went past the checks of its arguments.
Accepted(call) == ~RejectedEarly(call.student_vector_76d, call.carrera)

\* C10: the corpus ranked is the concatenation, in source-list order and preserving
\* each source's record order, of exactly the sources that loaded; an absent source or
\* one without the required columns contributes nothing and raises nothing, and if no
\* source loads the call returns None instead of raising.
C10_CorpusIsConcatenationOfLoaded ==
    (rq[MainThread].pc = "returned" /\ Accepted(rq[MainThread].call)) =>
        LET expected == RowsOfLoadable(get_career_csv(rq[MainThread].call.carrera).paths)
        IN  /\ rq[MainThread].out.kind # "raised"
            /\ expected = <<>> => rq[MainThread].out.kind = "None"
            /\ expected # <<>> =>
                  Texts(rq[MainThread].out.df_ofertas.rows) = Texts(expected)

\* A call for the career with two sources has returned rows although one of its
\* sources could not be loaded.
C10_Witness ==
    /\ ReturnedRows
    /\ Len(get_career_csv(rq[MainThread].call.carrera).paths) = 2
    /\ \E k \in 1..2 :
          ~Loadable(csv_files[get_career_csv(rq[MainThread].call.carrera).paths[k]])
    /\ rq[MainThread].out.df_ofertas.rows # <<>>

-----------------------------------------------------------------------------
(* Corpora of about 69 offers *)

LargeCareers ==
    {"Ingenieria En Software", "Ciencias De Datos E Inteligencia Artificial",
     "Ingenieria En Ciencias De Datos"}

CallerLarge ==
    CallGetRecommendations(MainThread, {v \in StudentVectors : Len(v) = NUM_DIMS},
                           LargeCareers, {MaxTopN})

LargeNext == CallerLarge \/ GetRecommendations \/ CallerDone \/ ClearCacheBetween

InitLarge == EngInit(LargeDisks) /\ DMIdle /\ AppIdle /\ MapIdle /\ VecIdle /\ HistIdle

SpecLarge == InitLarge /\ [][LargeNext]_vars

RECURSIVE OwnWeight(_, _, _)
\* The weight of group g in the TF-IDF vector computed for record i of the corpus
\* concatenated from the cached sources among the paths: the cached array of a source
\* has one column per record of the source.
OwnWeight(paths, i, g) ==
    IF paths = <<>> THEN 0
    ELSE IF Head(paths) \notin DOMAIN ofertas_cache THEN OwnWeight(Tail(paths), i, g)
    ELSE IF i <= Len(ofertas_cache[Head(paths)].df.rows)
         THEN Cell(ofertas_cache[Head(paths)].arr, g, i)
         ELSE OwnWeight(Tail(paths), i - Len(ofertas_cache[Head(paths)].df.rows), g)

\* C3: for every corpus size N >= 1, N = 69 included, the technical components of
\* row i of the posting matrix are the TF-IDF vector computed for posting record i.
C3_RowsAlignedWithRecords ==
    ReturnedRows =>
        \A i \in DOMAIN rq[MainThread].out.df_ofertas.rows : \A g \in 1..NUM_TECH :
            Cell(rq[MainThread].out.vectores_76d, i, g) =
                OwnWeight(get_career_csv(rq[MainThread].call.carrera).paths, i, g)

-----------------------------------------------------------------------------
(* get_recommendations by several request threads: the steps between which other
   threads run *)

\* Where a call goes once the source at the head of 'todo' is dealt with.
AfterSource(todo) == IF Len(todo) > 1 THEN "check_cache" ELSE "rank"

\* The thread's lists with the tuple of one more source (lines 172-177).
Collected(r, result) ==
    [r EXCEPT !.df_list = Append(@, result.df),
              !.arr_list = Append(@, AsRows(result.arr)),
              !.loaded = NoOffers,
              !.todo = Tail(@),
              !.pc = AfterSource(r.todo)]

\* Lines 147-163: the checks of the arguments and the list of paths
Begin(t) ==
    /\ rq[t].pc = "called"
    /\ rq' = [rq EXCEPT ![t] =
                IF RejectedEarly(rq[t].call.student_vector_76d, rq[t].call.carrera)
                THEN [@ EXCEPT !.pc = "returned", !.out = NoRecommendations]
                ELSE [@ EXCEPT !.pc = "check_cache",
                               !.todo = get_career_csv(rq[t].call.carrera).paths]]
    /\ UNCHANGED <<csv_files, ofertas_cache, vectorized, argsort_ties>>
    /\ UNCHANGED outsideEng

\* _load_job_offers, lines 37-38: if csv_path in self._ofertas_cache: return it
CheckCache(t) ==
    /\ rq[t].pc = "check_cache"
    /\ rq' = [rq EXCEPT ![t] =
                IF Head(rq[t].todo) \in DOMAIN ofertas_cache
                THEN Collected(@, ofertas_cache[Head(rq[t].todo)])
                ELSE [@ EXCEPT !.pc = "load"]]
    /\ UNCHANGED <<csv_files, ofertas_cache, vectorized, argsort_ties>>
    /\ UNCHANGED outsideEng

\* _load_job_offers with the failure of a load written to the cache as well
LoadVectorizeCachesFailure(t) ==
    /\ rq[t].pc = "load"
    /\ \E loaded \in {LoadAndVectorize(csv_files[Head(rq[t].todo)])} :
        /\ rq' = [rq EXCEPT ![t].loaded = loaded, ![t].pc = "cache_write"]
        /\ vectorized' = IF loaded.is_none THEN vectorized
                         ELSE [vectorized EXCEPT ![Head(rq[t].todo)] = @ + 1]
    /\ UNCHANGED <<csv_files, ofertas_cache, argsort_ties>>
    /\ UNCHANGED outsideEng

\* _load_job_offers, lines 40-77 and 84-86: read the file and vectorize it
LoadVectorize(t) ==
    /\ rq[t].pc = "load"
    /\ \E loaded \in {LoadAndVectorize(csv_files[Head(rq[t].todo)])} :
        IF loaded.is_none
        THEN /\ rq' = [rq EXCEPT ![t].todo = Tail(@), ![t].pc = AfterSource(rq[t].todo)]
             /\ UNCHANGED vectorized
        ELSE /\ rq' = [rq EXCEPT ![t].loaded = loaded, ![t].pc = "cache_write"]
             /\ vectorized' = [vectorized EXCEPT ![Head(rq[t].todo)] = @ + 1]
    /\ UNCHANGED <<csv_files, ofertas_cache, argsort_ties>>
    /\ UNCHANGED outsideEng

\* _load_job_offers, lines 80-82: self._ofertas_cache[csv_path] = (df_ofertas, array)
CacheWrite(t) ==
    /\ rq[t].pc = "cache_write"
    /\ ofertas_cache' = [p \in DOMAIN ofertas_cache \cup {Head(rq[t].todo)} |->
                            IF p = Head(rq[t].todo) THEN rq[t].loaded ELSE ofertas_cache[p]]
    /\ rq' = [rq EXCEPT ![t] = Collected(@, rq[t].loaded)]
    /\ UNCHANGED <<csv_files, vectorized, argsort_ties>>
    /\ UNCHANGED outsideEng

\* Lines 179-226: concatenate, expand, rank and return
Rank(t) ==
    /\ rq[t].pc = "rank"
    /\ rq' = [rq EXCEPT ![t].pc = "returned",
                        ![t].out = RankOffers(rq[t].call.student_vector_76d, rq[t].df_list,
                                              rq[t].arr_list,
                                              EffectiveTopN(rq[t].call.top_n), argsort_ties)]
    /\ UNCHANGED <<csv_files, ofertas_cache, vectorized, argsort_ties>>
    /\ UNCHANGED outsideEng

\* The requests the threads make.
ThreadCareers ==
    {"Ciencias De Datos E Inteligencia Artificial", "Ingenieria En Ciencias De Datos",
     "Astrologia"}
ThreadStudents ==
    {create_vector_76d("Ciencias De Datos E Inteligencia Artificial", Str(<<>>), NoRatings)}
ThreadDisks ==
    {d \in SmallDisks : Loadable(d[CienciaDeDatosCsv]) /\ d[SoftwareCsv] # AbsentFile}

ThreadCalls == \E t \in Threads : CallGetRecommendations(t, ThreadStudents, ThreadCareers, {2})
ThreadBegins == \E t \in Threads : Begin(t)
ThreadChecksCache == \E t \in Threads : CheckCache(t)
ThreadLoads == \E t \in Threads : LoadVectorize(t)
ThreadWritesCache == \E t \in Threads : CacheWrite(t)
ThreadRanks == \E t \in Threads : Rank(t)
ThreadDone == \E t \in Threads : Done(t)

ConcNext ==
    \/ ThreadCalls
    \/ ThreadBegins
    \/ ThreadChecksCache
    \/ ThreadLoads
    \/ ThreadWritesCache
    \/ ThreadRanks
    \/ ThreadDone
    \/ ClearCache

InitConc == EngInit(ThreadDisks) /\ DMIdle /\ AppIdle /\ MapIdle /\ VecIdle /\ HistIdle

SpecConc == InitConc /\ [][ConcNext]_vars

\* C1: for every source location, under any interleaving of concurrent calls, the
\* load-and-vectorize work for the location is completed at most once between cache
\* clears.
C1_AtMostOneLoadPerLocation == \A p \in CsvPaths : vectorized[p] <= 1

-----------------------------------------------------------------------------
(* The cache over a sequence of requests *)

RECURSIVE CachedFrames(_)
\* The frames the cache holds for the paths, in the order of the paths.
CachedFrames(paths) ==
    IF paths = <<>> THEN <<>>
    ELSE (IF Head(paths) \in DOMAIN ofertas_cache
          THEN <<ofertas_cache[Head(paths)].df>> ELSE <<>>)
         \o CachedFrames(Tail(paths))

\* The corpus a returned call ranked is made of the frames the cache holds.
RanksCachedTuples ==
    (ReturnedRows /\ Accepted(rq[MainThread].call)) =>
        rq[MainThread].out.df_ofertas =
            Concat(CachedFrames(get_career_csv(rq[MainThread].call.carrera).paths))

\* A step leaves every cached tuple as it is, unless it clears the cache.
CacheKept ==
    \/ ofertas_cache' = <<>>
    \/ \A p \in DOMAIN ofertas_cache :
          p \in DOMAIN ofertas_cache' /\ ofertas_cache'[p] = ofertas_cache[p]

\* C11: in a sequential run, once a source location has been loaded, every later
\* request that needs it, for any career that lists it, ranks the cached tuple: the
\* location is read and vectorized at most once between two clears, and the cached
\* tuple stays the same until clear_cache.
C11_LoadedOnceUntilClear ==
    /\ [](\A p \in CsvPaths : vectorized[p] <= 1)
    /\ []RanksCachedTuples
    /\ [][CacheKept]_vars

\* A call for the career with the one file Ciencia_de_Datos_Merged.csv has returned
\* rows after a call for the career that lists the same file after another one, and
\* the file was read once.
C11_Witness ==
    /\ ReturnedRows
    /\ rq[MainThread].call.carrera = "Ingenieria En Ciencias De Datos"
    /\ InteligenciaArtificialCsv \in DOMAIN ofertas_cache
    /\ vectorized[CienciaDeDatosCsv] = 1

-----------------------------------------------------------------------------
(* A request made again: after other requests, after clear_cache *)

\* clear_cache that leaves the entries in place
clear_cache_kept(cache) == cache

\* self._ofertas_cache.clear()
clear_cache(cache) == <<>>

MaxBetween == 2

\* What the caller keeps: the request, its first result, what happened since, and
\* the result and the paths loaded when the request was made again.
Kept(pc_, call, first_out, between, cleared, just_cleared, again_out, again_vectorized) ==
    [pc |-> pc_, call |-> call, first_out |-> first_out, between |-> between,
     cleared |-> cleared, just_cleared |-> just_cleared, again_out |-> again_out,
     again_vectorized |-> again_vectorized]

\* The requests made twice, and the requests made in between.
RepeatedStudents ==
    { create_vector_76d("Ingenieria En Software", Str(<<"Python", ",", "sql">>),
                        Ratings(<<3, 4, 2, 4, 4, 3, 5>>)),
      create_vector_76d("Ciencias De Datos E Inteligencia Artificial", Str(<<>>),
                        NoRatings) }
RepeatedTopNs == {0, 2, 8}
OtherCalls ==
    { Call(create_vector_76d("Ingenieria En Software", Str(<<>>), NoRatings), c, 1) :
        c \in LargeCareers }

RepInit ==
    /\ EngInit(SmallDisks)
    /\ rp = Kept("start", NoCall, NoRecommendations, 0, FALSE, FALSE,
                 NoRecommendations, <<>>)
    /\ pr = <<>> /\ sh = <<>> /\ store = <<>>

\* How many times each path was loaded and vectorized, 'paths' added.
Counted(count, paths) ==
    [p \in CsvPaths |-> count[p] + Cardinality({k \in DOMAIN paths : paths[k] = p})]

\* The request is made for the first time.
FirstRequest ==
    /\ rp.pc = "start"
    /\ \E student \in RepeatedStudents, carrera \in LargeCareers, top_n \in RepeatedTopNs :
         \E r \in {get_recommendations(student, carrera, top_n, ofertas_cache, csv_files,
                                       argsort_ties)} :
            /\ rp' = [rp EXCEPT !.pc = "first_done",
                                !.call = Call(student, carrera, top_n),
                                !.first_out = r.out, !.between = 0,
                                !.just_cleared = FALSE]
            /\ ofertas_cache' = r.cache
            /\ vectorized' = Counted(vectorized, r.vectorized)
    /\ UNCHANGED <<csv_files, argsort_ties, rq, pr, sh, store>>
    /\ UNCHANGED <<dmVars, appVars, mapVars, vecVars>>

\* Another request is served, before the first request or after it.
OtherRequest ==
    /\ rp.pc \in {"start", "first_done"}
    /\ rp.between < MaxBetween
    /\ \E call \in OtherCalls :
         \E r \in {get_recommendations(call.student_vector_76d, call.carrera, call.top_n,
                                       ofertas_cache, csv_files, argsort_ties)} :
            /\ ofertas_cache' = r.cache
            /\ vectorized' = Counted(vectorized, r.vectorized)
    /\ rp' = [rp EXCEPT !.between = @ + 1, !.just_cleared = FALSE]
    /\ UNCHANGED <<csv_files, argsort_ties, rq, pr, sh, store>>
    /\ UNCHANGED <<dmVars, appVars, mapVars, vecVars>>

\* engine.clear_cache() after the first request
ClearCacheAfterFirst ==
    /\ rp.pc = "first_done"
    /\ ~rp.just_cleared
    /\ ofertas_cache' = clear_cache(ofertas_cache)
    /\ vectorized' = [p \in CsvPaths |-> 0]
    /\ rp' = [rp EXCEPT !.cleared = TRUE, !.just_cleared = TRUE]
    /\ UNCHANGED <<csv_files, argsort_ties, rq, pr, sh, store>>
    /\ UNCHANGED <<dmVars, appVars, mapVars, vecVars>>

\* The same request is made again.
RepeatRequest ==
    /\ rp.pc = "first_done"
    /\ \E r \in {get_recommendations(rp.call.student_vector_76d, rp.call.carrera,
                                     rp.call.top_n, ofertas_cache, csv_files,
                                     argsort_ties)} :
            /\ rp' = [rp EXCEPT !.pc = "repeated", !.again_out = r.out,
                                !.again_vectorized = r.vectorized]
            /\ ofertas_cache' = r.cache
            /\ vectorized' = Counted(vectorized, r.vectorized)
    /\ UNCHANGED <<csv_files, argsort_ties, rq, pr, sh, store>>
    /\ UNCHANGED <<dmVars, appVars, mapVars, vecVars>>

RepNext == FirstRequest \/ OtherRequest \/ ClearCacheAfterFirst \/ RepeatRequest

InitRep == RepInit /\ DMIdle /\ AppIdle /\ MapIdle /\ VecIdle

SpecRep == InitRep /\ [][RepNext]_vars

RECURSIVE LoadablePaths(_)
\* The paths whose file can be loaded, in order.
LoadablePaths(paths) ==
    IF paths = <<>> THEN <<>>
    ELSE (IF Loadable(csv_files[Head(paths)]) THEN <<Head(paths)>> ELSE <<>>)
         \o LoadablePaths(Tail(paths))

\* C12: clear_cache empties the cache; the next get_recommendations for the career
\* reloads each of its sources from storage, and with unchanged source data it
\* returns the same ranked output as the same request returned before the clear.
C12_SameOutputAfterClear ==
    /\ (rp.pc = "first_done" /\ rp.just_cleared) => ofertas_cache = <<>>
    /\ (rp.pc = "repeated" /\ rp.just_cleared) =>
          /\ rp.again_out = rp.first_out
          /\ rp.again_vectorized = LoadablePaths(get_career_csv(rp.call.carrera).paths)

\* The request with two sources returned rows, the cache was cleared, and the request
\* made again has returned.
C12_Witness ==
    /\ rp.pc = "repeated"
    /\ rp.just_cleared
    /\ rp.first_out.kind = "DataFrame"
    /\ Len(rp.again_vectorized) = 2

\* C13: two calls with the same student vector, career and top_n against a populated,
\* unchanged cache return identical results (same rows, same order, same ranks and
\* similarities), whatever other requests ran in between.
C13_SameCallSameResult ==
    (rp.pc = "repeated" /\ ~rp.cleared) => rp.again_out = rp.first_out

\* The request returned several rows, other requests were served, and the request made
\* again has returned from the cache alone.
C13_Witness ==
    /\ rp.pc = "repeated"
    /\ ~rp.cleared
    /\ rp.between > 0
    /\ Len(rp.first_out.rows) >= 2
    /\ rp.again_vectorized = <<>>

-----------------------------------------------------------------------------
(* Properties of the student vector (SpecVec) *)

\* create_vector_76d has returned for a career that is a column of the academic matrix.
VectorBuilt == vz_result.returned /\ vz_call.carrera \in DOMAIN tfidf_epn_69d

\* C14: for every career that is a column of the academic matrix, every subjects text
\* and every ratings input, create_vector_76d returns exactly 76 components, the last
\* 7 in [0,1] and each of the first 69 either the career's base value or 0.99.
C14_VectorShapeAndRanges ==
    VectorBuilt =>
        /\ Len(vz_result.vector) = NUM_DIMS
        /\ \A k \in (NUM_TECH + 1)..NUM_DIMS :
              vz_result.vector[k] >= 0 /\ vz_result.vector[k] <= 100
        /\ \A g \in 1..NUM_TECH :
              vz_result.vector[g] \in {tfidf_epn_69d[vz_call.carrera][g], PERSONALIZED}

\* A vector was built from subjects that changed a dimension and from ratings of which
\* some are below 1 and some above 5.
C14_Witness ==
    /\ VectorBuilt
    /\ \E g \in 1..NUM_TECH :
          /\ vz_result.vector[g] = PERSONALIZED
          /\ tfidf_epn_69d[vz_call.carrera][g] # PERSONALIZED
    /\ ~vz_call.soft_skills.is_none
    /\ \E k \in DOMAIN vz_call.soft_skills.vals : vz_call.soft_skills.vals[k] > 5
    /\ \E k \in DOMAIN vz_call.soft_skills.vals : vz_call.soft_skills.vals[k] < 1

\* C15: create_vector_76d called with a career that is not a column of the academic
\* matrix returns None: no exception, no partial vector, and neither the subjects nor
\* the ratings are processed.
C15_UnknownCareerNoVector ==
    (vz_result.returned /\ vz_call.carrera \notin AcademicCareers) =>
        vz_result.vector = <<>>

\* The call for a career without a column, with subjects that match terms and with
\* seven ratings, has returned.
C15_Witness ==
    /\ vz_result.returned
    /\ vz_call.carrera \notin AcademicCareers
    /\ MatchedTerms(vz_call.asignaturas) # {}
    /\ Len(vz_call.soft_skills.vals) = NUM_SOFT

\* The ratings are missing, empty or not exactly 7 values.
RatingsUnusable(soft_skills) == soft_skills.is_none \/ Len(soft_skills.vals) # NUM_SOFT

\* C16: when the ratings are missing, empty or not exactly 7 values, the builder puts
\* 0.5 in all 7 soft-skill components and still returns a 76-component vector, with
\* no exception.
C16_DefaultSoftSkills ==
    (VectorBuilt /\ RatingsUnusable(vz_call.soft_skills)) =>
        /\ Len(vz_result.vector) = NUM_DIMS
        /\ \A k \in (NUM_TECH + 1)..NUM_DIMS : vz_result.vector[k] = 50

\* A vector was built from a list of 6 ratings, or of 8.
C16_Witness ==
    /\ VectorBuilt
    /\ ~vz_call.soft_skills.is_none
    /\ Len(vz_call.soft_skills.vals) \in {NUM_SOFT - 1, NUM_SOFT + 1}

\* (min(max(r, 1), 5) - 1) / 4 in hundredths, value by value
Expected(r) ==
    CASE r <= 1 -> 0
      [] r = 2 -> 25
      [] r = 3 -> 50
      [] r = 4 -> 75
      [] r >= 5 -> 100

\* C17: for 7 integer ratings r_0..r_6, component 69+k of the student vector is
\* (min(max(r_k, 1), 5) - 1) / 4: all 1 give 0.0, all 5 give 1.0, all 3 give 0.5, and
\* a rating below 1 or above 5 gives what 1 or 5 gives.
C17_SoftSkillScale ==
    (VectorBuilt /\ ~RatingsUnusable(vz_call.soft_skills)) =>
        \A k \in 1..NUM_SOFT :
            vz_result.vector[NUM_TECH + k] = Expected(vz_call.soft_skills.vals[k])

\* A vector was built from seven ratings that reach from below 1 to above 5.
C17_Witness ==
    /\ VectorBuilt
    /\ ~RatingsUnusable(vz_call.soft_skills)
    /\ \E k \in 1..NUM_SOFT : vz_call.soft_skills.vals[k] < 1
    /\ \E k \in 1..NUM_SOFT : vz_call.soft_skills.vals[k] > 5
    /\ \E k \in 1..NUM_SOFT : vz_call.soft_skills.vals[k] = 1

\* The distinct non-empty subject tokens of a text.
Tokens(asignaturas) ==
    {normalize_text(asignaturas)[k] : k \in DOMAIN normalize_text(asignaturas)}

\* C19: the personalized technical vector depends only on the base vector and the set
\* of distinct non-empty subject tokens: the same subjects in another order, or with a
\* subject repeated, or applied to the vector already personalized, give the same
\* vector.
C19_PersonalizationBySetOfTokens ==
    VectorBuilt =>
        LET base == get_academic_vector_69d(vz_call.carrera)
            personalized == SubSeq(vz_result.vector, 1, NUM_TECH)
        IN  /\ \A other \in SubjectTexts :
                  Tokens(other) = Tokens(vz_call.asignaturas)
                  => personalize_vector_69d(base, other) = personalized
            /\ personalize_vector_69d(personalized, vz_call.asignaturas) = personalized

\* A vector was built from two subjects that each changed a dimension, and another
\* text lists the same subjects differently.
C19_Witness ==
    /\ VectorBuilt
    /\ Cardinality(Tokens(vz_call.asignaturas)) = 2
    /\ Cardinality({g \in 1..NUM_TECH :
                      vz_result.vector[g] # tfidf_epn_69d[vz_call.carrera][g]}) >= 2
    /\ \E other \in SubjectTexts :
          other # vz_call.asignaturas /\ Tokens(other) = Tokens(vz_call.asignaturas)

-----------------------------------------------------------------------------
(* POST /api/recommendations/predict  (routes/recommendations.py, utils/validation.py) *)

\* JSON values of a rating: an integer, a number with a fraction (kept in tenths), or
\* something that is no number.
JsonInt(n) == [kind |-> "int", tenths |-> 10 * n]
JsonFloat(tenths) == [kind |-> "float", tenths |-> tenths]
JsonStr == [kind |-> "str", tenths |-> 0]

\* int(rating): the fraction is cut off, towards zero
IntOf(rating) ==
    IF rating.tenths >= 0 THEN rating.tenths \div 10 ELSE -((-rating.tenths) \div 10)

\* The 'soft_skills' member of the body: a list, or another JSON value.
JsonList(vals) == [is_list |-> TRUE, vals |-> vals]
NotAList == [is_list |-> FALSE, vals |-> <<>>]

\* The 'carrera' member of the body: a string, or another JSON value.
JsonText(text) == [is_str |-> TRUE, text |-> text]
NotAText == [is_str |-> FALSE, text |-> Text(0, "", 0)]

\* The 'top_n' member: absent (None), an integer, or another JSON value.
TopNAbsent == [kind |-> "None", n |-> 0]
TopNInt(n) == [kind |-> "int", n |-> n]
TopNOther == [kind |-> "str", n |-> 0]

\* str.lower() on the career names of the model
LowerName(name) ==
    CASE name \in {"Ingenieria En Software", "INGENIERIA EN SOFTWARE"}
            -> "ingenieria en software"
      [] name \in {"Ingenieria En Ciencias De Datos", "ingenieria en ciencias de datos"}
            -> "ingenieria en ciencias de datos"
      [] name = "Carrera Inexistente" -> "carrera inexistente"
      [] name = "(RRA20) SOFTWARE" -> "(rra20) software"
      [] OTHER -> name

\* What a validator hands back: the value, or the exception it raised.
Valid(value) == [error |-> "none", value |-> value]
Invalid == [error |-> "ValidationError", value |-> <<>>]

\* validate_carrera (validation.py 11-44)
validate_carrera(carrera) ==
    IF ~carrera.is_str \/ strip(carrera.text) = "" THEN Invalid
    ELSE LET stripped == Text(0, strip(carrera.text), 0)
             matching == {a \in get_available_careers :
                            LowerName(a) = LowerName(strip(carrera.text))}
         IN  IF map_career(stripped) # NoneVal THEN Valid(map_career(stripped))
             ELSE IF matching # {} THEN Valid(CHOOSE a \in matching : TRUE)
             ELSE Invalid

\* The length of a subjects text in characters.
TooLong == [is_str |-> TRUE, lex |-> <<"a text of 1001 characters">>]
CharLen(asignaturas) == IF asignaturas = TooLong THEN 1001 ELSE Len(asignaturas.lex)

\* validate_asignaturas (validation.py 47-73)
validate_asignaturas(asignaturas) ==
    IF ~asignaturas.is_str THEN Invalid
    ELSE IF StripLex(asignaturas.lex) = <<>> THEN Valid(Str(<<>>))
    ELSE IF CharLen(asignaturas) > 1000 THEN Invalid
    ELSE Valid(Str(StripLex(asignaturas.lex)))

\* validate_soft_skills without int() before the test of the range: a rating is
\* compared as it is
validate_soft_skills_exact(soft_skills) ==
    IF ~soft_skills.is_list THEN Invalid
    ELSE IF Len(soft_skills.vals) # NUM_SOFT THEN Invalid
    ELSE IF \E k \in 1..NUM_SOFT :
               \/ soft_skills.vals[k].kind \notin {"int", "float"}
               \/ soft_skills.vals[k].tenths < 10
               \/ soft_skills.vals[k].tenths > 50
         THEN Invalid
    ELSE Valid([k \in 1..NUM_SOFT |-> IntOf(soft_skills.vals[k])])

\* validate_soft_skills (validation.py 76-106): rating_int = int(rating) is what is
\* compared with 1 and 5
validate_soft_skills(soft_skills) ==
    IF ~soft_skills.is_list THEN Invalid
    ELSE IF Len(soft_skills.vals) # NUM_SOFT THEN Invalid
    ELSE IF \E k \in 1..NUM_SOFT :
               \/ soft_skills.vals[k].kind \notin {"int", "float"}
               \/ IntOf(soft_skills.vals[k]) < 1
               \/ IntOf(soft_skills.vals[k]) > 5
         THEN Invalid
    ELSE Valid([k \in 1..NUM_SOFT |-> IntOf(soft_skills.vals[k])])

\* validate_top_n (validation.py 109-130)
validate_top_n(top_n) ==
    IF top_n.kind = "None" THEN Valid(5)
    ELSE IF top_n.kind # "int" THEN Invalid
    ELSE IF top_n.n < 1 \/ top_n.n > 50 THEN Invalid
    ELSE Valid(top_n.n)

\* The JSON body of a predict request; a member that is absent is not in 'members'.
Body(members, carrera, asignaturas, soft_skills, top_n, include_alt) ==
    [members |-> members, carrera |-> carrera, asignaturas |-> asignaturas,
     soft_skills |-> soft_skills, top_n |-> top_n, include_alt |-> include_alt]

\* validate_request_data (validation.py 134-168): the four values, or ValidationError
validate_request_data(data) ==
    LET carrera == validate_carrera(data.carrera)
        asignaturas == validate_asignaturas(IF "asignaturas" \in data.members
                                            THEN data.asignaturas ELSE Str(<<>>))
        soft_skills == validate_soft_skills(data.soft_skills)
        top_n == validate_top_n(IF "top_n" \in data.members THEN data.top_n
                                ELSE TopNAbsent)
    IN  IF ~({"carrera", "soft_skills"} \subseteq data.members) THEN Invalid
        ELSE IF carrera.error # "none" THEN Invalid
        ELSE IF asignaturas.error # "none" THEN Invalid
        ELSE IF soft_skills.error # "none" THEN Invalid
        ELSE IF top_n.error # "none" THEN Invalid
        ELSE Valid([carrera |-> carrera.value, asignaturas |-> asignaturas.value,
                    soft_skills |-> soft_skills.value, top_n |-> top_n.value])

\* improved_vector[69:] = np.clip(improved_vector[69:] + 0.3, 0.0, 1.0)
improved_vector(student_vector_76d) ==
    [d \in DOMAIN student_vector_76d |->
        IF d <= NUM_TECH THEN student_vector_76d[d]
        ELSE IF student_vector_76d[d] + 30 > 100 THEN 100 ELSE student_vector_76d[d] + 30]

\* What the handler did: its response, the cache afterwards, whether it built a student
\* vector and whether it ran a ranking.
Handled(resp, cache, vector_built, ranked) ==
    [response |-> resp, cache |-> cache, vector_built |-> vector_built, ranked |-> ranked]

\* The answer of the handler (recommendations.py 50-260) given what its calls
\* returned: 'v' from validate_request_data, the student vector, 'r' from
\* get_recommendations, and the cache after the alternative ranking; 'llm' says whether
\* the AI personalizer is required and cannot be used
predict_response(v, student_vector_76d, r, alt_cache, llm, cache) ==
    IF v.error # "none"
    THEN Handled(Response(400, FALSE, "ValidationError"), cache, FALSE, FALSE)
    ELSE IF student_vector_76d = <<>>
    THEN Handled(Response(400, FALSE, "No se pudo crear el vector"), cache, FALSE, FALSE)
    ELSE IF r.out.kind = "raised"
    THEN Handled(Response(500, FALSE, "Error interno del servidor"), r.cache, TRUE, TRUE)
    ELSE IF r.out.kind = "None"
    THEN Handled(Response(200, FALSE, "No se encontraron recomendaciones"),
                 r.cache, TRUE, TRUE)
    ELSE IF llm = "required_and_unavailable"
    THEN Handled(Response(503, FALSE, "personalizador deshabilitado"), r.cache, TRUE, TRUE)
    ELSE Handled(Response(200, TRUE, "Recomendaciones generadas exitosamente"),
                 alt_cache, TRUE, TRUE)

\* get_recommendations was not called.
NotRanked(cache) == [out |-> NoRecommendations, cache |-> cache, vectorized |-> <<>>]

\* The bodies tried.
CarreraValues ==
    { JsonText(Text(0, "Ingenieria En Software", 0)),
      JsonText(Text(1, "INGENIERIA EN SOFTWARE", 1)),
      JsonText(Text(0, "(RRA20) SOFTWARE", 0)),
      JsonText(Text(0, "ingenieria en ciencias de datos", 0)),
      JsonText(Text(0, "(RRA20) TECNOLOGÍAS DE LA INFORMACIÓN", 0)),
      JsonText(Text(0, "Ingenieria Civil", 0)),
      JsonText(Text(0, "Carrera Inexistente", 0)),
      JsonText(Text(2, "", 0)),
      NotAText }
AsignaturasValues == {Str(<<"Python", ",", Blank, "sql">>), TooLong, NotAStr}
SoftSkillsValues ==
    { JsonList([k \in 1..7 |-> JsonInt(<<4, 5, 3, 4, 4, 3, 4>>[k])]),
      JsonList([k \in 1..7 |-> JsonInt(1)]),
      JsonList([k \in 1..6 |-> JsonInt(1)]),
      JsonList([k \in 1..8 |-> JsonInt(3)]),
      JsonList([k \in 1..7 |-> JsonInt(<<1, 2, 3, 4, 5, 6, 1>>[k])]),
      JsonList([k \in 1..7 |-> JsonInt(<<0, 2, 3, 4, 5, 5, 1>>[k])]),
      JsonList([k \in 1..7 |-> IF k = 6 THEN JsonFloat(55) ELSE JsonInt((k % 5) + 1)]),
      JsonList([k \in 1..7 |-> IF k = 2 THEN JsonFloat(5) ELSE JsonInt(2)]),
      JsonList([k \in 1..7 |-> IF k = 2 THEN JsonFloat(25) ELSE JsonInt(2)]),
      JsonList([k \in 1..7 |-> IF k = 7 THEN JsonStr ELSE JsonInt(2)]),
      JsonList(<<>>),
      NotAList }
TopNValues == {TopNAbsent, TopNInt(2), TopNInt(0), TopNInt(51), TopNOther}
MemberSets ==
    { {"carrera", "soft_skills"}, {"carrera", "asignaturas", "soft_skills", "top_n"},
      {"carrera", "asignaturas"}, {"soft_skills", "top_n"} }
\* Every career with every soft_skills value; the alternative ranking for some; and
\* every combination of the other members.
Bodies ==
    { Body({"carrera", "asignaturas", "soft_skills", "top_n"}, c, Str(<<"Python">>), s,
           TopNInt(2), FALSE) :
        c \in CarreraValues, s \in SoftSkillsValues }
    \cup
    { Body({"carrera", "soft_skills"}, c, NotAStr, s, TopNAbsent, TRUE) :
        c \in {JsonText(Text(0, "(RRA20) SOFTWARE", 0)),
               JsonText(Text(0, "Carrera Inexistente", 0))},
        s \in {JsonList([k \in 1..7 |-> JsonInt(1)]), JsonList([k \in 1..6 |-> JsonInt(1)])} }
    \cup
    { Body(m, JsonText(Text(0, "Ingenieria En Software", 0)), a,
           JsonList([k \in 1..7 |-> JsonInt(<<4, 5, 3, 4, 4, 3, 4>>[k])]), t, FALSE) :
        m \in MemberSets, a \in AsignaturasValues, t \in TopNValues }

\* A request is not under way; what the last one did.
PredictIdle ==
    [pc |-> "idle", data |-> Body({}, NotAText, NotAStr, NotAList, TopNAbsent, FALSE),
     cache_before |-> <<>>, vector_built |-> FALSE, ranked |-> FALSE]

PredictDisks ==
    { Disk(CsvFile(AllColumns, SoftwareRows),
           CsvFile(AllColumns, InteligenciaArtificialRows),
           CsvFile(AllColumns, CienciaDeDatosRows)),
      Disk(AbsentFile, AbsentFile, CsvFile(AllColumns, CienciaDeDatosRows)) }

PredictInit ==
    /\ EngInit(PredictDisks)
    /\ pr = PredictIdle
    /\ rp = <<>> /\ sh = <<>> /\ store = <<>>
    /\ app_state = "serving"
    /\ startup_failed = FALSE
    /\ response = NoResponse

\* A client posts a body to /predict; it has no answer yet.
PostPredict ==
    /\ pr.pc = "idle"
    /\ \E data \in Bodies :
          pr' = [PredictIdle EXCEPT !.pc = "posted", !.data = data,
                                    !.cache_before = ofertas_cache]
    /\ response' = NoResponse
    /\ UNCHANGED <<dmVars, app_state, startup_failed, mapVars, vecVars, engVars, rp, sh, store>>

\* The handler runs from its first line to its return: validation, the student
\* vector, the ranking, the AI personalizer, and the alternative ranking when asked for.
HandlePredict ==
    /\ pr.pc = "posted"
    /\ \E llm \in {"usable_or_not_required", "required_and_unavailable"} :
       \E v \in {validate_request_data(pr.data)} :
       \E vector \in {IF v.error # "none" THEN <<>>
                      ELSE create_vector_76d(v.value.carrera, v.value.asignaturas,
                                             Ratings(v.value.soft_skills))} :
       \E r \in {IF vector = <<>> THEN NotRanked(ofertas_cache)
                 ELSE get_recommendations(vector, v.value.carrera, v.value.top_n,
                                          ofertas_cache, csv_files, argsort_ties)} :
       \E alt_cache \in
             {IF /\ pr.data.include_alt
                 /\ r.out.kind = "DataFrame"
                 /\ llm = "usable_or_not_required"
              THEN get_recommendations(improved_vector(vector), v.value.carrera,
                                       v.value.top_n * 2, r.cache, csv_files,
                                       argsort_ties).cache
              ELSE r.cache} :
       \E h \in {predict_response(v, vector, r, alt_cache, llm, ofertas_cache)} :
            /\ response' = h.response
            /\ ofertas_cache' = h.cache
            /\ pr' = [pr EXCEPT !.pc = "answered", !.vector_built = h.vector_built,
                                !.ranked = h.ranked]
    /\ UNCHANGED <<csv_files, vectorized, argsort_ties, rq, rp, sh, store>>
    /\ UNCHANGED <<dmVars, app_state, startup_failed, mapVars, vecVars>>

\* The client has its answer; the next request can come.
AnsweredPredict ==
    /\ pr.pc = "answered"
    /\ pr' = PredictIdle
    /\ UNCHANGED <<dmVars, appVars, mapVars, vecVars, engVars, rp, sh, store>>

PredictNext == PostPredict \/ HandlePredict \/ AnsweredPredict

InitPredict == PredictInit /\ DMIdle /\ MapIdle /\ VecIdle

SpecPredict == InitPredict /\ [][PredictNext]_vars

\* The career of the body is not recognised: no string, or a name that is neither a
\* survey label nor a career with job offers, whatever its case.
CareerNotRecognised(data) ==
    \/ "carrera" \notin data.members
    \/ ~data.carrera.is_str
    \/ /\ strip(data.carrera.text) \notin DOMAIN MAPEO_CARRERAS
       /\ \A a \in DOMAIN CARRERA_TO_CSV :
             LowerName(a) # LowerName(strip(data.carrera.text))

\* The soft_skills of the body are not a list of exactly 7 entries.
NotSevenEntries(data) ==
    \/ "soft_skills" \notin data.members
    \/ ~data.soft_skills.is_list
    \/ Len(data.soft_skills.vals) # NUM_SOFT

\* Some rating of the body is outside 1..5.
RatingOutOfRange(data) ==
    /\ "soft_skills" \in data.members
    /\ \E k \in DOMAIN data.soft_skills.vals :
          \/ data.soft_skills.vals[k].kind \notin {"int", "float"}
          \/ data.soft_skills.vals[k].tenths < 10
          \/ data.soft_skills.vals[k].tenths > 50

\* The request was refused before anything was computed for it.
Refused ==
    /\ response.success = FALSE
    /\ ~pr.vector_built
    /\ ~pr.ranked
    /\ ofertas_cache = pr.cache_before

\* C18: a predict request is answered with success=false, and no student vector is
\* built, no ranking is run and the posting cache is left unchanged, whenever its career
\* is not recognised, its soft_skills list does not have exactly 7 entries, or any
\* soft-skill rating is outside 1..5.
C18_InvalidRequestRefused ==
    (/\ pr.pc = "answered"
     /\ \/ CareerNotRecognised(pr.data)
        \/ NotSevenEntries(pr.data)
        \/ RatingOutOfRange(pr.data))
    => Refused

-----------------------------------------------------------------------------
(* DataManager with one caller at a time *)

\* The thread is inside DataManager().
MidCall(t) == pc[t] \notin {"idle", "ready", "failed"}

\* No other thread is inside a call.
Alone(t) == \A u \in Threads \ {t} : ~MidCall(u)

\* A thread takes a step while no other thread is inside a call.
SeqNext ==
    \E t \in Threads :
        \/ Alone(t) /\ CallDataManager(t)
        \/ Alone(t) /\ NewCheck(t)
        \/ Alone(t) /\ NewCreate(t)
        \/ Alone(t) /\ NewReturn(t)
        \/ Alone(t) /\ InitCheck(t)
        \/ Alone(t) /\ InitLoadData(t)
        \/ Alone(t) /\ InitAssign(t)
        \/ Alone(t) /\ InitSetLoaded(t)
        \/ Alone(t) /\ CallIsReady(t)
        \/ \E key \in AccessorKeys : Alone(t) /\ CallAccessor(t, key)

SpecSeq == InitDM /\ [][SeqNext]_vars

\* Some DataManager() call has returned the object to its caller.
Constructed ==
    \E t \in Threads : observed[t].op # "none" /\ observed[t].result # "RuntimeError"

\* A step after a construction has succeeded reads no bundle and leaves the singleton
\* and what it holds as they are.
NoReload ==
    Constructed =>
        /\ loads_started' = loads_started
        /\ files' = files
        /\ cls_instance' = cls_instance
        /\ instances' = instances

\* What an accessor returned is the member of the object the singleton holds.
AccessorsReadTheStore ==
    \A t \in Threads :
        observed[t].op \in AccessorKeys =>
            /\ cls_instance # 0
            /\ instances[cls_instance].is_loaded
            /\ observed[t].result = DictGet(instances[cls_instance].datos_procesados,
                                            observed[t].op)

\* C20: in a sequential run, after the first successful DataManager() construction no
\* later construction or accessor call reads or parses the bundle again, and each
\* accessor returns the object held in memory since that construction.
C20_NoReloadAfterConstruction ==
    /\ [][NoReload]_vars
    /\ []AccessorsReadTheStore

\* Both callers have constructed DataManager(), one of them twice, and an accessor has
\* returned a structure; the bundle was read once.
C20_Witness ==
    /\ \A t \in Threads : calls[t] >= 1 /\ pc[t] = "ready"
    /\ \E t \in Threads : calls[t] = MaxCalls
    /\ \E t \in Threads : observed[t].op \in AccessorKeys /\ observed[t].result = "value"
    /\ loads_started = 1

-----------------------------------------------------------------------------
(* The placeholder (Git LFS pointer) check of _load_data (SpecDM) *)

\* Thread t runs _load_data in this step, and the file it locates begins with the marker.
LoadsLocatedPointer(t) ==
    /\ pc[t] = "load_data"
    /\ pc'[t] # "load_data"
    /\ LocatePkl(files) # 0
    /\ files[LocatePkl(files)] = "lfs_pointer"

\* The call has raised the RuntimeError and has set nothing on the store.
LoadFailed(t) ==
    /\ pc'[t] = "failed"
    /\ observed'[t] = Returned("DataManager", "RuntimeError")
    /\ loaded_obj'[t] = NoneVal
    /\ instances' = instances

NoPointerDeserialized ==
    /\ \A t \in Threads : loaded_obj[t] # "lfs_pointer"
    /\ \A i \in DOMAIN instances : instances[i].datos_procesados # "lfs_pointer"

-----------------------------------------------------------------------------
(* Lines 166-187 of get_recommendations over the tuples of a bundle whose group
   mapping has some number of groups, 69 or not *)

\* The numbers of groups tried, and of records in a source.
GroupCounts == {0, 1, 23, 68, NUM_TECH, 70}
RecordCounts == {1, 2, 23, NUM_TECH}
MaxSources == 3

\* What _load_job_offers returns for a file of n records under a group mapping of
\* 'groups' groups none of which has a term of the vocabulary: matriz_69d has one row
\* per group and one column per record, all counts 0, and the TF-IDF step keeps the
\* shape. Without any group the TF-IDF step raises and the except clause returns None.
ZeroOffers(groups, n, first) ==
    IF groups = 0 THEN NoOffers
    ELSE Offers(DataFrame(AllColumns, NumberedRows(n, first)), Matrix(groups, n, <<>>))

\* A call under a bundle of 'groups' groups: the sources visited so far and what they
\* gave.
Collecting(groups, visited, df_list, arr_list) ==
    [pc |-> "collect", groups |-> groups, visited |-> visited, df_list |-> df_list,
     arr_list |-> arr_list, out |-> NoRecommendations]

ShapeInit ==
    /\ sh \in {Collecting(groups, 0, <<>>, <<>>) : groups \in GroupCounts}
    /\ rp = <<>>
    /\ pr = <<>>
    /\ store = <<>>

\* for csv_full_path in full_paths: one more source (lines 168-177)
CollectSource ==
    /\ sh.pc = "collect"
    /\ sh.visited < MaxSources
    /\ \E n \in RecordCounts :
        \E result \in {ZeroOffers(sh.groups, n, 1 + 100 * sh.visited)} :
            sh' = IF result.is_none
                  THEN [sh EXCEPT !.visited = @ + 1]
                  ELSE [sh EXCEPT !.visited = @ + 1,
                                  !.df_list = Append(@, result.df),
                                  !.arr_list = Append(@, AsRows(result.arr))]
    /\ UNCHANGED <<rp, pr, store>>
    /\ UNCHANGED <<dmVars, appVars, mapVars, vecVars, engVars>>

\* Lines 179-226 over what was collected
RankCollected ==
    /\ sh.pc = "collect"
    /\ \E student \in {create_vector_76d("Ingenieria En Software", Str(<<>>), NoRatings)} :
        \E out \in {RankOffers(student, sh.df_list, sh.arr_list, 5, argsort_ties)} :
            sh' = [sh EXCEPT !.pc = "returned", !.out = out]
    /\ UNCHANGED <<rp, pr, store>>
    /\ UNCHANGED <<dmVars, appVars, mapVars, vecVars, engVars>>

ShapeNext == CollectSource \/ RankCollected

InitShape ==
    /\ ShapeInit
    /\ EngInit({Disk(AbsentFile, AbsentFile, AbsentFile)})
    /\ DMIdle /\ AppIdle /\ MapIdle /\ VecIdle

SpecShape == InitShape /\ [][ShapeNext]_vars

\* The number of records collected.
NumRecords == Len(Concat(sh.df_list).rows)

\* The arrays collected cannot be stacked, or stacked they are not (records) x 69.
WrongShape ==
    \/ ~SameCols(sh.arr_list)
    \/ VStack(sh.arr_list).rows # NumRecords
    \/ VStack(sh.arr_list).cols # NUM_TECH

\* C22: when the concatenated posting-vector matrix is not (number of records) x 69,
\* get_recommendations raises; it returns neither ranked rows nor None.
C22_WrongShapeRaises ==
    (sh.pc = "returned" /\ sh.df_list # <<>> /\ WrongShape) => sh.out.kind = "raised"

\* Three sources of 23 records each under a mapping of 23 groups: the stacked array is
\* 69 x 23 for 69 records, and the call has raised.
C22_Witness ==
    /\ sh.pc = "returned"
    /\ sh.groups = 23
    /\ Len(sh.df_list) = 3
    /\ VStack(sh.arr_list).rows = NUM_TECH
    /\ NumRecords = NUM_TECH
    /\ WrongShape
    /\ sh.out.kind = "raised"

-----------------------------------------------------------------------------
(* Request threads, clear_cache and a source file that changes on disk *)

\* What Ciencia_de_Datos_Merged.csv holds over time: nothing, its offers, fewer
\* offers, or a file without the required columns.
LiveContents ==
    { AbsentFile,
      CsvFile(AllColumns, CienciaDeDatosRows),
      CsvFile(AllColumns, SubSeq(CienciaDeDatosRows, 1, 2)),
      CsvFile({"job_title", "url"}, CienciaDeDatosRows) }

LiveDisks ==
    {Disk(AbsentFile, CsvFile(AllColumns, InteligenciaArtificialRows), datos) :
        datos \in LiveContents}

LiveCareers ==
    {"Ciencias De Datos E Inteligencia Artificial", "Ingenieria En Ciencias De Datos"}

\* The file is written anew by whoever maintains the offers.
SourceChanges ==
    /\ \E file \in LiveContents \ {csv_files[CienciaDeDatosCsv]} :
          csv_files' = [csv_files EXCEPT ![CienciaDeDatosCsv] = file]
    /\ UNCHANGED <<ofertas_cache, vectorized, argsort_ties, rq>>
    /\ UNCHANGED outsideEng

LiveCalls == \E t \in Threads : CallGetRecommendations(t, ThreadStudents, LiveCareers, {2})

LiveNext ==
    \/ LiveCalls
    \/ ThreadBegins
    \/ ThreadChecksCache
    \/ ThreadLoads
    \/ ThreadWritesCache
    \/ ThreadRanks
    \/ ThreadDone
    \/ ClearCache
    \/ SourceChanges

InitLive ==
    /\ EngInit(LiveDisks)
    /\ argsort_ties = "index_ascending"
    /\ DMIdle /\ AppIdle /\ MapIdle /\ VecIdle /\ HistIdle

SpecLive == InitLive /\ [][LiveNext]_vars

\* The tuples a successful load of a path can give.
LiveTuples ==
    [p \in CsvPaths |->
        {LoadAndVectorize(file) :
            file \in IF p = CienciaDeDatosCsv THEN LiveContents
                     ELSE {d[p] : d \in LiveDisks}} \ {NoOffers}]

\* C23: under any interleaving, each entry visible in the cache is the complete
\* (records, vectors) pair of a load that finished successfully, one vector per
\* record; never None, never a part of a tuple.
C23_CacheEntriesComplete ==
    \A p \in DOMAIN ofertas_cache :
        /\ ofertas_cache[p] \in LiveTuples[p]
        /\ ~ofertas_cache[p].is_none
        /\ ofertas_cache[p].arr.rows = NUM_TECH
        /\ ofertas_cache[p].arr.cols = Len(ofertas_cache[p].df.rows)

\* A load of the changing file has failed in one thread while the other thread is about
\* to write its tuple, and the cache holds the entry of the other source.
C23_Witness ==
    /\ InteligenciaArtificialCsv \in DOMAIN ofertas_cache
    /\ CienciaDeDatosCsv \notin DOMAIN ofertas_cache
    /\ ~Loadable(csv_files[CienciaDeDatosCsv])
    /\ \E t, u \in Threads :
          /\ rq[t].pc = "rank" /\ Len(rq[t].df_list) = 1
          /\ rq[t].call.carrera = "Ciencias De Datos E Inteligencia Artificial"
          /\ rq[u].pc = "cache_write" /\ Head(rq[u].todo) = CienciaDeDatosCsv

\* Thread t executes the cache write of line 80 in this step.
WritesCache(t) == rq[t].pc = "cache_write" /\ rq'[t].pc # "cache_write"

\* C24: once the cache holds an entry for a source location, no step of a
\* get_recommendations call replaces or changes it; only clear_cache removes it.
C24_EntryKeptUntilClear ==
    [][/\ CacheKept
       /\ \A t \in Threads : WritesCache(t) => Head(rq[t].todo) \notin DOMAIN ofertas_cache]_vars

\* C29: under any interleaving of clear_cache with loads in flight, every corpus in the
\* cache was read from its source after the last clear_cache.
C29_NoCorpusFromBeforeClear ==
    \A p \in DOMAIN ofertas_cache : vectorized[p] >= 1

-----------------------------------------------------------------------------
(* The academic matrix in memory: which array create_vector_76d writes into *)

\* A reference to a numpy array: a column of the academic matrix held by DataManager,
\* or the array a request has made for itself.
StoreRef(carrera) == [kind |-> "store", key |-> carrera]
OwnRef == [kind |-> "own", key |-> ""]
NoRef == [kind |-> "None", key |-> ""]

\* The array behind a reference, and the memory after the array is assigned to.
Deref(mem, ref) == IF ref.kind = "store" THEN mem.arrays[ref.key] ELSE mem.own
Assigned(mem, ref, vector) ==
    IF ref.kind = "store" THEN [mem EXCEPT !.arrays[ref.key] = vector]
    ELSE [mem EXCEPT !.own = vector]

\* self.tfidf_epn_69d.T.loc[carrera].values: the column's values, not a copy of them
academic_vector_ref(mem, carrera) ==
    IF carrera \in DOMAIN mem.arrays THEN StoreRef(carrera) ELSE NoRef

\* vector = vector_base_69d without .copy(): the same array under another name
copy_shared(mem, ref) == [mem |-> mem, ref |-> ref]

\* vector = vector_base_69d.copy()
copy(mem, ref) == [mem |-> [mem EXCEPT !.own = Deref(mem, ref)], ref |-> OwnRef]

\* personalize_vector_69d on references: the memory afterwards and the array returned
personalize_in_memory(mem, base_ref, asignaturas_relevantes) ==
    IF Len(Deref(mem, base_ref)) # NUM_TECH THEN [mem |-> mem, ref |-> base_ref]
    ELSE LET c == copy(mem, base_ref)
         IN  [mem |-> Assigned(c.mem, c.ref,
                               PersonalizeLoop(Deref(c.mem, c.ref),
                                               normalize_text(asignaturas_relevantes))),
              ref |-> c.ref]

\* What a build leaves to compare: its arguments, the base values it started from and
\* the vector it returned.
Built(carrera, asignaturas, soft_skills, base, vector) ==
    [returned |-> TRUE, carrera |-> carrera, asignaturas |-> asignaturas,
     soft_skills |-> soft_skills, base |-> base, vector |-> vector]
NotBuilt == [Built("", NotAStr, NoRatings, <<>>, <<>>) EXCEPT !.returned = FALSE]

\* The builds tried.
StoreCareers == {"Ingenieria En Software", "Ingenieria En Ciencias De Datos", "Astrologia"}
StoreTexts == {Str(<<>>), Str(<<"Python">>), Str(<<"GIT", ";", "Python">>)}
StoreRatings == {Ratings(<<3, 4, 2, 4, 4, 3, 5>>), NoRatings}

StoreInit ==
    /\ store = [arrays |-> tfidf_epn_69d, own |-> <<>>, built |-> NotBuilt]
    /\ rp = <<>>
    /\ pr = <<>>
    /\ sh = <<>>

\* A caller invokes vectorizer.create_vector_76d(carrera, asignaturas, soft_skills).
CallBuild ==
    /\ rq[MainThread].pc = "idle"
    /\ store.built.returned \/ store.built = NotBuilt
    /\ \E carrera \in StoreCareers, asignaturas \in StoreTexts, soft_skills \in StoreRatings :
          store' = [store EXCEPT !.built = [Built(carrera, asignaturas, soft_skills, <<>>, <<>>)
                                                EXCEPT !.returned = FALSE]]
    /\ UNCHANGED <<rp, pr, sh>>
    /\ UNCHANGED <<dmVars, appVars, mapVars, vecVars, engVars>>

\* create_vector_76d from its first line to its return; the request's own array is
\* dropped with the request
BuildVector ==
    /\ ~store.built.returned
    /\ store.built # NotBuilt
    /\ \E vector_69d \in {academic_vector_ref(store, store.built.carrera)} :
            IF vector_69d = NoRef
            THEN store' = [store EXCEPT !.built.returned = TRUE]
            ELSE \E base \in {Deref(store, vector_69d)} :
                 \E p \in {personalize_in_memory(store, vector_69d, store.built.asignaturas)} :
                    store' = [p.mem EXCEPT
                                !.own = <<>>,
                                !.built = Built(store.built.carrera, store.built.asignaturas,
                                                store.built.soft_skills, base,
                                                Deref(p.mem, p.ref) \o
                                                normalize_soft_skills(store.built.soft_skills))]
    /\ UNCHANGED <<rp, pr, sh>>
    /\ UNCHANGED <<dmVars, appVars, mapVars, vecVars, engVars>>

\* The vector built is ranked for its career.
RankBuilt ==
    /\ store.built.returned
    /\ store.built.vector # <<>>
    /\ CallGetRecommendations(MainThread, {store.built.vector}, {store.built.carrera}, {2})

StoreNext == CallBuild \/ BuildVector \/ RankBuilt \/ GetRecommendations \/ CallerDone

InitStore ==
    /\ StoreInit
    /\ EngInit({d \in SmallDisks : \A p \in CsvPaths : Loadable(d[p])})
    /\ argsort_ties = "index_ascending"
    /\ DMIdle /\ AppIdle /\ MapIdle /\ VecIdle

SpecStore == InitStore /\ [][StoreNext]_vars

\* C25: no sequence of create_vector_76d and get_recommendations calls changes the
\* academic matrix the store holds; each build starts from the career's base values and
\* writes its 0.99 entries into an array of its own.
C25_StoreNeverWritten ==
    /\ store.arrays = tfidf_epn_69d
    /\ (store.built.returned /\ store.built.vector # <<>>) =>
          /\ store.built.base = tfidf_epn_69d[store.built.carrera]
          /\ store.built.vector = create_vector_76d(store.built.carrera,
                                                    store.built.asignaturas,
                                                    store.built.soft_skills)

\* A build for 'Ingenieria En Software' with a subject that sets entries to 0.99 has
\* returned after a ranking call, and its vector differs from the base in the
\* technical part.
C25_Witness ==
    /\ store.built.returned
    /\ store.built.carrera = "Ingenieria En Software"
    /\ store.built.vector # <<>>
    /\ SubSeq(store.built.vector, 1, NUM_TECH) # store.built.base
    /\ ofertas_cache # <<>>
    /\ rq[MainThread].pc = "idle"

-----------------------------------------------------------------------------
(* The rows of a ranking (SpecEng) *)

\* The job titles of the corpus a call ranked, as the walk reads them.
CorpusTitles(df) == {RowGet(df, idx, "job_title", "N/A") : idx \in DOMAIN df.rows}

Min(a, b) == IF a <= b THEN a ELSE b

\* The rows are numbered 1..k in the order listed and their similarities never rise.
NumberedAndSorted(rows) ==
    /\ \A i \in DOMAIN rows : rows[i].rank = i
    /\ \A i \in DOMAIN rows : i < Len(rows) => rows[i].similitud >= rows[i + 1].similitud

\* C26 as stated: the rows are numbered 1..k without gaps, their similarities are
\* non-increasing, and k is the minimum of top_n and the number of distinct job titles
\* of the concatenated corpus.
C26_RowsNumberedUpToTopN ==
    ReturnedRows =>
        /\ NumberedAndSorted(rq[MainThread].out.rows)
        /\ Len(rq[MainThread].out.rows) =
              Min(rq[MainThread].call.top_n,
                  Cardinality(CorpusTitles(rq[MainThread].out.df_ofertas)))

\* C26: the rows are numbered 1..k without gaps, their similarities are non-increasing,
\* and k is the minimum of the number of distinct job titles of the concatenated
\* corpus and top_n, or 5 where top_n < 1.
C26_RowsNumberedUpToEffectiveTopN ==
    ReturnedRows =>
        /\ NumberedAndSorted(rq[MainThread].out.rows)
        /\ Len(rq[MainThread].out.rows) =
              Min(EffectiveTopN(rq[MainThread].call.top_n),
                  Cardinality(CorpusTitles(rq[MainThread].out.df_ofertas)))

\* A call with top_n = 8 over the seven offers of Software_Merged.csv has returned six
\* rows, one per title, of more than one similarity.
C26_Witness ==
    /\ ReturnedRows
    /\ rq[MainThread].call.top_n = 8
    /\ Len(rq[MainThread].out.df_ofertas.rows) = 7
    /\ Len(rq[MainThread].out.rows) = 6
    /\ rq[MainThread].out.rows[1].similitud > rq[MainThread].out.rows[6].similitud

\* The call of the main thread runs from its first line to its return in this step.
Runs == rq[MainThread].pc = "called" /\ rq'[MainThread].pc = "returned"

\* What the same call gives with top_n = 5 (the value an omitted top_n takes, line 134)
\* for the same student vector, career, cache and files.
WithTopNFive ==
    get_recommendations(rq[MainThread].call.student_vector_76d, rq[MainThread].call.carrera,
                        5, ofertas_cache, csv_files, argsort_ties)

\* C27: a get_recommendations call with a top_n below 1 returns what the call with
\* top_n = 5 returns for the same student vector, career and cache, and leaves the
\* same cache.
C27_NonPositiveTopNIsFive ==
    [][(Runs /\ rq[MainThread].call.top_n < 1) =>
           /\ rq'[MainThread].out = WithTopNFive.out
           /\ ofertas_cache' = WithTopNFive.cache]_vars

\* A call with top_n = 0 has returned five rows.
C27_Witness ==
    /\ ReturnedRows
    /\ rq[MainThread].call.top_n = 0
    /\ Len(rq[MainThread].out.rows) = 5

-----------------------------------------------------------------------------
(* One caller at a time, clear_cache, and a source file that changes on disk *)

\* The paths of a sequence, as a set.
PathSet(paths) == {paths[k] : k \in DOMAIN paths}

\* The sources the call is about to read: those of its career that are not cached.
Attempted ==
    IF Accepted(rq[MainThread].call)
    THEN PathSet(get_career_csv(rq[MainThread].call.carrera).paths) \ DOMAIN ofertas_cache
    ELSE {}

DiskInit ==
    /\ EngInit(LiveDisks)
    /\ argsort_ties = "index_ascending"
    /\ rp = [failed |-> {}]
    /\ pr = <<>>
    /\ sh = <<>>
    /\ store = <<>>

DiskCall == CallGetRecommendations(MainThread, ThreadStudents, LiveCareers, {2})

\* get_recommendations from its first line to its return; the caller notes the sources
\* whose load failed
DiskRun ==
    /\ rq[MainThread].pc = "called"
    /\ \E r \in {get_recommendations(rq[MainThread].call.student_vector_76d,
                                     rq[MainThread].call.carrera,
                                     rq[MainThread].call.top_n,
                                     ofertas_cache, csv_files, argsort_ties)} :
        /\ ofertas_cache' = r.cache
        /\ vectorized' = [p \in CsvPaths |->
                            vectorized[p] + Cardinality({k \in DOMAIN r.vectorized :
                                                            r.vectorized[k] = p})]
        /\ rq' = [rq EXCEPT ![MainThread].pc = "returned", ![MainThread].out = r.out]
        /\ rp' = [failed |-> rp.failed \cup (Attempted \ PathSet(r.vectorized))]
    /\ UNCHANGED <<csv_files, argsort_ties, pr, sh, store>>
    /\ UNCHANGED <<dmVars, appVars, mapVars, vecVars>>

\* engine.clear_cache() between calls
DiskClear ==
    /\ rq[MainThread].pc = "idle"
    /\ ofertas_cache # <<>> \/ rp.failed # {}
    /\ ofertas_cache' = clear_cache(ofertas_cache)
    /\ vectorized' = [p \in CsvPaths |-> 0]
    /\ rp' = [failed |-> {}]
    /\ UNCHANGED <<csv_files, argsort_ties, rq, pr, sh, store>>
    /\ UNCHANGED <<dmVars, appVars, mapVars, vecVars>>

\* The file is written anew between calls.
SourceChangesBetween == rq[MainThread].pc = "idle" /\ SourceChanges

DiskNext == DiskCall \/ DiskRun \/ CallerDone \/ DiskClear \/ SourceChangesBetween

InitDisk == DiskInit /\ DMIdle /\ AppIdle /\ MapIdle /\ VecIdle

SpecDisk == InitDisk /\ [][DiskNext]_vars

\* What a call does to the cache: a source that fails to load gets no entry, a source
\* that loads gets its tuple, and nothing else changes.
FailureNotCached ==
    Runs =>
        /\ \A p \in Attempted :
              IF Loadable(csv_files[p])
              THEN p \in DOMAIN ofertas_cache' /\ ofertas_cache'[p] = LoadAndVectorize(csv_files[p])
              ELSE p \notin DOMAIN ofertas_cache'
        /\ \A p \in DOMAIN ofertas_cache :
              p \in DOMAIN ofertas_cache' /\ ofertas_cache'[p] = ofertas_cache[p]
        /\ DOMAIN ofertas_cache' \subseteq DOMAIN ofertas_cache \cup Attempted

\* C30: a failed source load leaves the cache as it was; the failure is not cached, so
\* a later call reads the source again and caches it once it is loadable, without any
\* clear_cache.
C30_FailedLoadNotCached ==
    /\ [][FailureNotCached]_vars
    /\ [](\A p \in DOMAIN ofertas_cache : ~ofertas_cache[p].is_none)

\* The load of Ciencia_de_Datos_Merged.csv has failed since the last clear, and a later
\* call has loaded it and returned rows.
C30_Witness ==
    /\ CienciaDeDatosCsv \in rp.failed
    /\ CienciaDeDatosCsv \in DOMAIN ofertas_cache
    /\ ReturnedRows
    /\ rq[MainThread].call.carrera = "Ingenieria En Ciencias De Datos"

=============================================================================
